---- MODULE Spec2Model ----
(***************************************************************************)
(* A model of the vavoo-stream-v2 relay route                              *)
(* (src/app/api/vavoo-stream-v2/route.ts, the first GET of the file, and   *)
(* its second GET apart): the credential / resolved-URL caches, the GET    *)
(* handler as a state machine whose steps are the handler's await points, *)
(* and the manifest rewriter together with the query-string parsing of    *)
(* the follow-up request.  URLs and manifest lines are TLA+ strings; the  *)
(* string functions of the platform (encodeURIComponent,                  *)
(* decodeURIComponent, URLSearchParams, URL) are modelled character by     *)
(* character on printable ASCII.                                           *)
(***************************************************************************)
EXTENDS Integers, Sequences, FiniteSets, TLC

(***************************************************************************)
(* Strings                                                                 *)
(***************************************************************************)

\* Printable ASCII in code order: codes 32 (space) to 95 (_) and 97 (a) to 126 (~).
\* Code 96 (the backquote) cannot be written in a string here and is left out of
\* the alphabet.
AsciiLow == " !\"#$%&'()*+,-./0123456789:;<=>?@ABCDEFGHIJKLMNOPQRSTUVWXYZ[\\]^_"
AsciiHigh == "abcdefghijklmnopqrstuvwxyz{|}~"

CharAt(s, i) == SubSeq(s, i, i)

CharsOf(s) == { CharAt(s, i) : i \in 1..Len(s) }

AsciiChars == CharsOf(AsciiLow) \cup CharsOf(AsciiHigh)

\* The character code of a printable ASCII character.
CodeOf == [ c \in AsciiChars |->
              IF c \in CharsOf(AsciiLow)
              THEN 31 + (CHOOSE i \in 1..Len(AsciiLow) : CharAt(AsciiLow, i) = c)
              ELSE 96 + (CHOOSE i \in 1..Len(AsciiHigh) : CharAt(AsciiHigh, i) = c) ]

\* The codes the alphabet covers.
AsciiCodes == { CodeOf[c] : c \in AsciiChars }

\* The printable ASCII character of a code in AsciiCodes.
Chr(code) == IF code <= 95 THEN CharAt(AsciiLow, code - 31) ELSE CharAt(AsciiHigh, code - 96)

HexUpper == "0123456789ABCDEF"
HexLower == "0123456789abcdef"

HexChars == { CharAt(HexUpper, i) : i \in 1..16 } \cup { CharAt(HexLower, i) : i \in 1..16 }

\* The value of a hexadecimal digit, either case.
HexVal == [ c \in HexChars |->
              (CHOOSE i \in 1..16 : CharAt(HexUpper, i) = c \/ CharAt(HexLower, i) = c) - 1 ]

\* "%XX" for a character code, upper-case hex as encodeURIComponent writes it.
PercentEscape(code) ==
    "%" \o CharAt(HexUpper, (code \div 16) + 1) \o CharAt(HexUpper, (code % 16) + 1)

\* String.prototype.startsWith
StartsWith(s, p) == Len(s) >= Len(p) /\ SubSeq(s, 1, Len(p)) = p

\* String.prototype.includes
Includes(s, sub) ==
    \E i \in 1..(Len(s) - Len(sub) + 1) : SubSeq(s, i, i + Len(sub) - 1) = sub

\* String.prototype.indexOf for a single character, 1-based; 0 when absent.
IndexOfChar(s, c) ==
    IF \E i \in 1..Len(s) : CharAt(s, i) = c
    THEN CHOOSE i \in 1..Len(s) :
            CharAt(s, i) = c /\ \A j \in 1..(i - 1) : CharAt(s, j) # c
    ELSE 0

\* The 1-based index of the first character of s that is in set cs; 0 when none.
IndexOfAny(s, cs) ==
    IF \E i \in 1..Len(s) : CharAt(s, i) \in cs
    THEN CHOOSE i \in 1..Len(s) :
            CharAt(s, i) \in cs /\ \A j \in 1..(i - 1) : CharAt(s, j) \notin cs
    ELSE 0

\* The characters String.prototype.trim removes (those a manifest line can hold here).
WhiteSpace == { " ", "\t", "\r", "\n" }

RECURSIVE TrimStart(_)
TrimStart(s) ==
    IF Len(s) > 0 /\ CharAt(s, 1) \in WhiteSpace THEN TrimStart(SubSeq(s, 2, Len(s))) ELSE s

RECURSIVE TrimEnd(_)
TrimEnd(s) ==
    IF Len(s) > 0 /\ CharAt(s, Len(s)) \in WhiteSpace
    THEN TrimEnd(SubSeq(s, 1, Len(s) - 1)) ELSE s

\* String.prototype.trim
Trim(s) == TrimEnd(TrimStart(s))

\* String.prototype.split for a single-character separator: a sequence of strings.
RECURSIVE Split(_, _)
Split(s, sep) ==
    LET i == IndexOfChar(s, sep)
    IN  IF i = 0 THEN << s >>
        ELSE << SubSeq(s, 1, i - 1) >> \o Split(SubSeq(s, i + 1, Len(s)), sep)

\* Array.prototype.join
RECURSIVE Join(_, _)
Join(parts, sep) ==
    IF Len(parts) = 0 THEN ""
    ELSE IF Len(parts) = 1 THEN parts[1]
    ELSE parts[1] \o sep \o Join(Tail(parts), sep)

UpperLetters == "ABCDEFGHIJKLMNOPQRSTUVWXYZ"
LowerLetters == "abcdefghijklmnopqrstuvwxyz"
Digits == "0123456789"

LowerChar(c) ==
    IF c \in CharsOf(UpperLetters) THEN CharAt(LowerLetters, IndexOfChar(UpperLetters, c)) ELSE c

\* String.prototype.toLowerCase on ASCII, evaluated by halves.
RECURSIVE ToLower(_)
ToLower(s) ==
    IF Len(s) = 0 THEN ""
    ELSE IF Len(s) = 1 THEN LowerChar(s)
    ELSE ToLower(SubSeq(s, 1, Len(s) \div 2)) \o ToLower(SubSeq(s, Len(s) \div 2 + 1, Len(s)))

(***************************************************************************)
(* Platform string functions the route calls                               *)
(***************************************************************************)

\* An absent value (JavaScript null / undefined) and a present one.
Null == << >>
Some(v) == << v >>
IsNull(o) == o = Null
ValueOf(o) == o[1]

\* The characters encodeURIComponent leaves as they are.
Unreserved == CharsOf(UpperLetters) \cup CharsOf(LowerLetters) \cup CharsOf(Digits)
                \cup { "-", "_", ".", "!", "~", "*", "'", "(", ")" }

\* encodeURIComponent on printable ASCII: every character that is not
\* unreserved becomes its escape.  Evaluated by halves, so that the depth of the
\* evaluation grows with the logarithm of the length.
RECURSIVE EncodeURIComponent(_)
EncodeURIComponent(s) ==
    IF Len(s) = 0 THEN ""
    ELSE IF Len(s) = 1 THEN (IF s \in Unreserved THEN s ELSE PercentEscape(CodeOf[s]))
    ELSE EncodeURIComponent(SubSeq(s, 1, Len(s) \div 2))
            \o EncodeURIComponent(SubSeq(s, Len(s) \div 2 + 1, Len(s)))

\* Whether s starts with "%" and two hexadecimal digits.
IsEscapeAt(s) ==
    /\ Len(s) >= 3
    /\ CharAt(s, 1) = "%"
    /\ CharAt(s, 2) \in HexChars
    /\ CharAt(s, 3) \in HexChars

EscapeCode(s) == 16 * HexVal[CharAt(s, 2)] + HexVal[CharAt(s, 3)]

\* Where a string of four characters or more that does not start with "%" is
\* cut in two for decoding: near its middle and just before a "%" that is there,
\* so that no escape lies across the cut.
DecodeCut(s) ==
    IF CharAt(s, Len(s) \div 2) = "%" THEN (Len(s) \div 2) - 1
    ELSE IF CharAt(s, (Len(s) \div 2) - 1) = "%" THEN (Len(s) \div 2) - 2
    ELSE Len(s) \div 2

\* decodeURIComponent: [ok |-> TRUE, val |-> decoded], or [ok |-> FALSE] where it
\* throws URIError ("%" not followed by two hex digits, or a byte that is not the
\* start of a well-formed UTF-8 sequence).  Escapes of codes outside the alphabet
\* (control characters, multi-byte sequences) are reported as malformed; the
\* inputs of the model hold none.
\* A string of four characters or more that does not start with "%" is decoded
\* by halves, cut at DecodeCut, which never falls inside an escape.
RECURSIVE DecodeURIComponent(_)
DecodeURIComponent(s) ==
    IF Len(s) = 0 THEN [ok |-> TRUE, val |-> ""]
    ELSE IF Len(s) > 3 /\ CharAt(s, 1) # "%"
    THEN LET a == DecodeURIComponent(SubSeq(s, 1, DecodeCut(s)))
         IN  IF ~a.ok THEN a
             ELSE LET b == DecodeURIComponent(SubSeq(s, DecodeCut(s) + 1, Len(s)))
                  IN  [ok |-> b.ok, val |-> a.val \o b.val]
    ELSE IF CharAt(s, 1) # "%"
    THEN LET r == DecodeURIComponent(SubSeq(s, 2, Len(s)))
         IN  [ok |-> r.ok, val |-> CharAt(s, 1) \o r.val]
    ELSE IF ~IsEscapeAt(s) \/ EscapeCode(s) \notin AsciiCodes
    THEN [ok |-> FALSE, val |-> ""]
    ELSE LET r == DecodeURIComponent(SubSeq(s, 4, Len(s)))
         IN  [ok |-> r.ok, val |-> Chr(EscapeCode(s)) \o r.val]

\* The decoding URLSearchParams applies to a name or a value
\* (application/x-www-form-urlencoded): "+" is a space, a well-formed escape is
\* its character, any other "%" stays as it is.  It never throws.
RECURSIVE FormDecode(_)
FormDecode(s) ==
    IF Len(s) = 0 THEN ""
    ELSE IF Len(s) > 3 /\ CharAt(s, 1) # "%"
    THEN FormDecode(SubSeq(s, 1, DecodeCut(s))) \o FormDecode(SubSeq(s, DecodeCut(s) + 1, Len(s)))
    ELSE IF CharAt(s, 1) = "+" THEN " " \o FormDecode(SubSeq(s, 2, Len(s)))
    ELSE IF IsEscapeAt(s) /\ EscapeCode(s) \in AsciiCodes
    THEN Chr(EscapeCode(s)) \o FormDecode(SubSeq(s, 4, Len(s)))
    ELSE CharAt(s, 1) \o FormDecode(SubSeq(s, 2, Len(s)))

\* The name and the value of one "name=value" piece of a query string.
PairName(pair) ==
    LET i == IndexOfChar(pair, "=")
    IN  FormDecode(IF i = 0 THEN pair ELSE SubSeq(pair, 1, i - 1))

PairValue(pair) ==
    LET i == IndexOfChar(pair, "=")
    IN  FormDecode(IF i = 0 THEN "" ELSE SubSeq(pair, i + 1, Len(pair)))

\* URLSearchParams.get on a query string (without its "?"): the value of the
\* first pair named name, Null when there is none.
SearchParamsGet(query, name) ==
    LET pairs == Split(query, "&")
        hits == { i \in 1..Len(pairs) : pairs[i] # "" /\ PairName(pairs[i]) = name }
    IN  IF hits = {} THEN Null
        ELSE Some(PairValue(pairs[CHOOSE i \in hits : \A j \in hits : i <= j]))

\* The query string of a request URL: what follows the first "?", up to a "#".
QueryOf(requestUrl) ==
    LET q == IndexOfChar(requestUrl, "?")
        rest == IF q = 0 THEN "" ELSE SubSeq(requestUrl, q + 1, Len(requestUrl))
        h == IndexOfChar(rest, "#")
    IN  IF h = 0 THEN rest ELSE SubSeq(rest, 1, h - 1)

(***************************************************************************)
(* new URL(s): the WHATWG parser on the URLs of the model (no credentials, *)
(* no port, no backslash, ASCII only)                                      *)
(***************************************************************************)

SpecialSchemes == { "http", "https", "ws", "wss", "ftp" }

SchemeChars == CharsOf(LowerLetters) \cup CharsOf(Digits) \cup { "+", "-", "." }

\* Code points a host of a special scheme must not hold.
ForbiddenHostChars ==
    { " ", "#", "/", ":", "<", ">", "?", "@", "[", "\\", "]", "^", "|", "%" }

\* Characters the parser percent-encodes in a path.
PathEncodeSet == { " ", "\"", "<", ">", "{", "}" }

RECURSIVE DropLeadingSlashes(_)
DropLeadingSlashes(s) ==
    IF Len(s) > 0 /\ CharAt(s, 1) = "/" THEN DropLeadingSlashes(SubSeq(s, 2, Len(s))) ELSE s

RECURSIVE PathEncode(_)
PathEncode(s) ==
    IF Len(s) = 0 THEN ""
    ELSE IF Len(s) = 1 THEN (IF s \in PathEncodeSet THEN PercentEscape(CodeOf[s]) ELSE s)
    ELSE PathEncode(SubSeq(s, 1, Len(s) \div 2)) \o PathEncode(SubSeq(s, Len(s) \div 2 + 1, Len(s)))

\* Dot-segment removal over the segments of a path.
RECURSIVE RemoveDots(_, _)
RemoveDots(segs, acc) ==
    IF Len(segs) = 0 THEN acc
    ELSE LET h == segs[1]
             last == Len(segs) = 1
         IN  IF h = ".."
             THEN LET popped == IF Len(acc) = 0 THEN acc ELSE SubSeq(acc, 1, Len(acc) - 1)
                  IN  RemoveDots(Tail(segs), IF last THEN Append(popped, "") ELSE popped)
             ELSE IF h = "."
             THEN RemoveDots(Tail(segs), IF last THEN Append(acc, "") ELSE acc)
             ELSE RemoveDots(Tail(segs), Append(acc, h))

\* URL.pathname of a special-scheme URL from the raw path ("" or "/...").
NormalPath(raw) ==
    IF raw = "" THEN "/"
    ELSE "/" \o Join(RemoveDots(Split(PathEncode(SubSeq(raw, 2, Len(raw))), "/"), << >>), "/")

\* new URL(s): [ok |-> FALSE] where the constructor throws, otherwise the fields
\* the route reads.
ParseUrl(input) ==
    LET s == Trim(input)
        c == IndexOfChar(s, ":")
        scheme == IF c > 1 THEN ToLower(SubSeq(s, 1, c - 1)) ELSE ""
        schemeOk == /\ c > 1
                    /\ CharAt(scheme, 1) \in CharsOf(LowerLetters)
                    /\ CharsOf(scheme) \subseteq SchemeChars
        rest == IF c > 0 THEN SubSeq(s, c + 1, Len(s)) ELSE ""
        bad == [ok |-> FALSE, protocol |-> "", hostname |-> "", origin |-> "", pathname |-> ""]
    IN  IF ~schemeOk THEN bad
        ELSE IF scheme \in SpecialSchemes
        THEN LET after == DropLeadingSlashes(rest)
                 e == IndexOfAny(after, { "/", "?", "#" })
                 host == ToLower(IF e = 0 THEN after ELSE SubSeq(after, 1, e - 1))
                 tail == IF e = 0 THEN "" ELSE SubSeq(after, e, Len(after))
                 q == IndexOfAny(tail, { "?", "#" })
                 raw == IF q = 0 THEN tail ELSE SubSeq(tail, 1, q - 1)
             IN  IF host = "" \/ CharsOf(host) \cap ForbiddenHostChars # {}
                 THEN bad
                 ELSE [ok |-> TRUE, protocol |-> scheme \o ":", hostname |-> host,
                       origin |-> scheme \o "://" \o host, pathname |-> NormalPath(raw)]
        ELSE [ok |-> TRUE, protocol |-> scheme \o ":", hostname |-> "",
              origin |-> "null", pathname |-> rest]


(***************************************************************************)
(* Bounds and program constants                                            *)
(***************************************************************************)

\* The clock runs from 0 to MaxTicks steps of TickStep milliseconds.
MaxTicks == 3

\* Lifetime of a cached signature and of a cached CDN URL, in milliseconds.
SigTTL == 3600000
CdnTTL == 1800000

\* The clock's granularity in the model: one CDN-URL lifetime.
TickStep == CdnTTL

VavooUA == "VAVOO/2.6"
BrowserUA == "Mozilla/5.0 (Linux; Android 13) AppleWebKit/537.36 (KHTML, like Gecko) Chrome/120.0.0.0 Mobile Safari/537.36"

AuthEndpoint == "https://www.vavoo.tv/api/app/ping"
ResolveEndpoint == "https://vavoo.to/mediahubmx-resolve.json"
RelayPath == "/api/vavoo-stream-v2"

(***************************************************************************)
(* State                                                                   *)
(***************************************************************************)

VARIABLES
    now,              \* Date.now(), in milliseconds
    cacheSignature,   \* cache.signature: Null or Some([sig, exp])
    cacheCdnUrls,     \* cache.cdnUrls: a function from source URLs to [url, exp]
    rq,               \* the GET handler's invocations: request id -> its inputs and locals
    links,            \* the client's walk over rewritten manifests (see LinkSpec)
    rw,               \* one manifest and its rewritings (see RewriteSpec)
    rs                \* one answer of the resolve endpoint and what is made of it (see ResolveSpec)

vars == << now, cacheSignature, cacheCdnUrls, rq, links, rw, rs >>

(***************************************************************************)
(* cleanExpiredCache, and the synchronous head of the two cached calls     *)
(***************************************************************************)

\* A cleanExpiredCache that also drops a signature whose expiry is the current time.
CleanSignatureAtExpiry(sig, t) ==
    IF sig # Null /\ ValueOf(sig).exp <= t THEN Null ELSE sig

\* cache.signature after cleanExpiredCache at time t.
CleanSignature(sig, t) ==
    IF sig # Null /\ ValueOf(sig).exp < t THEN Null ELSE sig

\* A cleanExpiredCache that leaves the resolved URLs alone.
CleanCdnUrlsKeepsAll(m, t) == m

\* cache.cdnUrls after cleanExpiredCache at time t.
CleanCdnUrls(m, t) ==
    [ k \in { k \in DOMAIN m : ~(m[k].exp < t) } |-> m[k] ]

\* A cache test with its comparison turned around.
SignatureHitInverted(sig, t) == sig # Null /\ ValueOf(sig).exp < t

\* getVavooSignature's test for a usable cached signature.
SignatureHit(sig, t) == sig # Null /\ ValueOf(sig).exp > t

\* A test that also takes an entry whose expiry is the current time.
CdnHitAtExpiry(m, key, t) == key \in DOMAIN m /\ m[key].exp >= t

\* resolveVavooUrl's test for a usable cached CDN URL.
CdnHit(m, key, t) == key \in DOMAIN m /\ m[key].exp > t

\* A store that writes the new signature and keeps the expiry already cached.
SignatureEntryKeepsExpiry(sig, t) ==
    Some([sig |-> sig,
          exp |-> IF cacheSignature # Null THEN ValueOf(cacheSignature).exp ELSE t + SigTTL])

\* The entry getVavooSignature stores for a signature received at time t.
SignatureEntry(sig, t) == Some([sig |-> sig, exp |-> t + SigTTL])

\* A store that keeps the entry a source URL already has.
CdnUrlsSetKeepsFirst(m, vavooUrl, cdnUrl, t) ==
    IF vavooUrl \in DOMAIN m THEN m
    ELSE [ k \in DOMAIN m \cup { vavooUrl } |->
             IF k = vavooUrl THEN [url |-> cdnUrl, exp |-> t + CdnTTL] ELSE m[k] ]

\* cache.cdnUrls after resolveVavooUrl stores cdnUrl for vavooUrl at time t.
CdnUrlsSet(m, vavooUrl, cdnUrl, t) ==
    [ k \in DOMAIN m \cup { vavooUrl } |->
        IF k = vavooUrl THEN [url |-> cdnUrl, exp |-> t + CdnTTL] ELSE m[k] ]

\* isVavooUrl
isVavooUrl(url) ==
    LET parsed == ParseUrl(url)
    IN  parsed.ok /\ Includes(parsed.hostname, "vavoo.to")

\* What the resolve endpoint's JSON body makes resolveVavooUrl return: the URL,
\* or Null.  A body is [shape |-> "array", items |-> a sequence of optional urls],
\* [shape |-> "object", url |-> an optional url] or [shape |-> "other"]; an absent
\* or empty url field is Null or Some("").
UrlOfResolveBody(result) ==
    IF result.shape = "array" /\ Len(result.items) > 0
          /\ result.items[1] # Null /\ ValueOf(result.items[1]) # ""
    THEN result.items[1]
    ELSE IF result.shape = "object" /\ result.url # Null /\ ValueOf(result.url) # ""
    THEN result.url
    ELSE Null


(***************************************************************************)
(* The manifest rewriter (GET, the M3U8 branch)                            *)
(***************************************************************************)

\* A base path that keeps the last segment of the pathname.
BasePathKeepsFile(pathname) == Join(Split(pathname, "/"), "/") \o "/"

\* basePath: the base URL's pathname with its last segment dropped, "/" kept.
BasePath(pathname) ==
    LET pathParts == Split(pathname, "/")
    IN  Join(SubSeq(pathParts, 1, Len(pathParts) - 1), "/") \o "/"

\* absoluteUrl for a trimmed reference line, against the parsed base URL.
AbsoluteUrl(trimmed, baseUrl) ==
    IF StartsWith(trimmed, "http://") \/ StartsWith(trimmed, "https://")
    THEN trimmed
    ELSE IF StartsWith(trimmed, "/")
    THEN baseUrl.origin \o trimmed
    ELSE baseUrl.origin \o BasePath(baseUrl.pathname) \o trimmed

\* A suffix that carries the cdn mode only.
SegmentModeCdnOnly(mode) == IF mode = "cdn" THEN "&mode=cdn" ELSE ""

\* segmentMode: the query suffix that carries the mode to follow-up requests.
SegmentMode(mode) ==
    IF mode = "cdn" THEN "&mode=cdn" ELSE IF mode = "auth" THEN "&mode=auth" ELSE ""

\* A test of the line as it stands, without trimming it.
IsPassThroughUntrimmed(line) == StartsWith(line, "#") \/ line = ""

\* A line is kept as it is when, trimmed, it is empty or starts with "#".
IsPassThrough(line) == StartsWith(Trim(line), "#") \/ Trim(line) = ""

\* A rewriting that applies encodeURIComponent to the absolute URL twice.
RewriteLineEncodingTwice(line, baseUrl, origin, mode) ==
    IF IsPassThrough(line) THEN line
    ELSE origin \o RelayPath \o "?url="
            \o EncodeURIComponent(EncodeURIComponent(AbsoluteUrl(Trim(line), baseUrl)))
            \o SegmentMode(mode)

\* The rewritten form of one manifest line.
RewriteLine(line, baseUrl, origin, mode) ==
    IF IsPassThrough(line) THEN line
    ELSE origin \o RelayPath \o "?url="
            \o EncodeURIComponent(AbsoluteUrl(Trim(line), baseUrl)) \o SegmentMode(mode)

\* The rewritten manifest text for a base given as a URL string.
RewriteManifest(text, base, origin, mode) ==
    LET baseUrl == ParseUrl(base)
        lines == Split(text, "\n")
    IN  Join([ i \in 1..Len(lines) |-> RewriteLine(lines[i], baseUrl, origin, mode) ], "\n")

\* The test that sends a fetched body to the rewriter.
IsManifest(contentType, finalUrl, targetUrl) ==
    \/ Includes(contentType, "mpegurl")
    \/ Includes(contentType, "m3u8")
    \/ Includes(finalUrl, ".m3u8")
    \/ Includes(targetUrl, ".m3u8")

\* The head of GET: the url and mode parameters, decoded and validated.
\* [status |-> 0] when the request passes, otherwise the status and the message
\* of the error response (500 comes from the handler's catch-all, reached when
\* decodeURIComponent throws).
ModeOf(query) ==
    LET m == SearchParamsGet(query, "mode")
    IN  IF m = Null \/ ValueOf(m) = "" THEN "standard" ELSE ValueOf(m)

\* The status GET answers before its mode branch (0: none, the request passes)
\* for the url parameter and its decoding.
RequestStatus(url, dec) ==
    IF url = Null \/ ValueOf(url) = "" THEN 400
    ELSE IF ~dec.ok THEN 500
    ELSE IF ~ParseUrl(dec.val).ok THEN 400
    ELSE 0

RequestError(url, dec, status) ==
    IF status = 0 THEN ""
    ELSE IF url = Null \/ ValueOf(url) = "" THEN "URL required"
    ELSE IF ~dec.ok THEN "URI malformed"
    ELSE "Invalid URL"

ParsedRequest(status, error, dec, mode) ==
    [status |-> status, error |-> error,
     targetUrl |-> IF status = 0 THEN dec.val ELSE "", mode |-> mode]

DecodedRequest(url, dec, mode) ==
    ParsedRequest(RequestStatus(url, dec), RequestError(url, dec, RequestStatus(url, dec)), dec, mode)

DecodeParam(url) ==
    IF url = Null THEN [ok |-> FALSE, val |-> ""] ELSE DecodeURIComponent(ValueOf(url))

ParseRequest(query) ==
    DecodedRequest(SearchParamsGet(query, "url"), DecodeParam(SearchParamsGet(query, "url")),
                   ModeOf(query))

\* The User-Agent of the content fetch: the mode branches of GET.
UserAgentFor(mode, isVavoo) ==
    IF mode = "cdn" THEN (IF isVavoo THEN VavooUA ELSE BrowserUA)
    ELSE IF mode = "auth" THEN VavooUA
    ELSE IF ~isVavoo THEN BrowserUA ELSE VavooUA

\* A mode branch that obtains a signature for every indirection URL.
NeedsSignatureAnyMode(mode, isVavoo) == isVavoo

\* Whether the mode branch of GET calls getVavooSignature.
NeedsSignature(mode, isVavoo) == (mode = "cdn" \/ mode = "auth") /\ isVavoo

\* fetch rejects at once, with no request sent, unless the URL is an http(s) URL.
Fetchable(url) ==
    LET parsed == ParseUrl(url)
    IN  parsed.ok /\ parsed.protocol \in { "http:", "https:" }


(***************************************************************************)
(* Inputs: client requests and content-server behaviours                   *)
(***************************************************************************)

ProxyOrigin == "https://proxy.example"

\* The query string of a relay request for a target URL in a mode ("" for none).
RelayQuery(target, mode) ==
    "url=" \o EncodeURIComponent(target) \o (IF mode = "" THEN "" ELSE "&mode=" \o mode)

IndirectManifest == "https://vavoo.to/play/42/index.m3u8"
IndirectSegment == "https://vavoo.to/live/7.ts"
CdnManifest == "https://cdn2.example/x/index.m3u8"
CdnSegment == "https://cdn2.example/x/seg.ts"
CdnPlain == "https://cdn2.example/x/master"
RedirectedManifest == "https://edge7.example/live/abc/index.m3u8"
\* A URL new URL accepts and fetch refuses (no http or https scheme).
OpaqueTarget == "foo:bar"

\* A URL on a foreign host whose name contains the indirection domain's name.
LookalikeTarget == "https://vavoo.to.evil.example/x/seg.ts"

\* A content server's behaviour towards one request: how the first fetch settles
\* (fail, status, headers, body, the final URL when it redirected), how the retry
\* settles, and the URL the resolve endpoint resolves the target to.
Upstream(fail, status, contentType, text, cl, cr, redirect, retryStatus, retryFail, cdn) ==
    [fail |-> fail, status |-> status, contentType |-> contentType, text |-> text,
     contentLength |-> cl, contentRange |-> cr, redirect |-> redirect,
     retryStatus |-> retryStatus, retryFail |-> retryFail, cdn |-> cdn]

HlsType == "application/vnd.apple.mpegurl"
TsType == "video/MP2T"

MediaPlaylist == "#EXTM3U\nseg1.ts"
SegmentBytes == "bytes"

ServesManifest ==
    Upstream("none", 200, HlsType, MediaPlaylist, Null, Null, Null, 200, FALSE, CdnManifest)

ForbidsSegment ==
    Upstream("none", 403, TsType, SegmentBytes, Null, Null, Null, 200, FALSE, CdnSegment)

\* A request before it runs: what the client sent (query, range) and how the
\* content server will answer this request's fetches (up).  sigExp is the expiry
\* recorded for the signature the request holds; purged tells whether the
\* cleanExpiredCache of the request's current cached call removed an entry.
NewRequest(query, range, up) ==
    [pc |-> "start", query |-> query, range |-> range, up |-> up,
     mode |-> "", targetUrl |-> "", finalUrl |-> "", isVavoo |-> FALSE,
     signature |-> Null, sigExp |-> 0, cdnUrl |-> Null,
     sigHeader |-> Null, purged |-> FALSE, timer |-> "unset", out |-> << >>, resp |-> Null]

\* The requests of the concurrent specification: a manifest in cdn mode, in
\* auth mode and in standard mode, a segment in cdn mode whose CDN answers 403,
\* and a cdn-mode request whose url is not a URL.
ConcurrentRequests ==
    { NewRequest(RelayQuery(IndirectManifest, "cdn"), Null, ServesManifest),
      NewRequest(RelayQuery(IndirectManifest, "auth"), Null, ServesManifest),
      NewRequest(RelayQuery(IndirectManifest, ""), Null, ServesManifest),
      NewRequest(RelayQuery(IndirectSegment, "cdn"), Null, ForbidsSegment),
      NewRequest("url=%2Fabs%2Fseg2.ts&mode=cdn", Null, ServesManifest) }

\* The requests of the single-request specification: every mode on indirection
\* and CDN targets, malformed url parameters, with and without a Range header,
\* against content servers that answer, redirect, refuse or fail.
SingleQueries ==
    { RelayQuery(t, m) : t \in { IndirectManifest, IndirectSegment, CdnManifest, CdnSegment },
                         m \in { "", "standard", "auth", "cdn" } }
        \cup { "", "mode=cdn", "url=", "url=%25", "url=%2525", "url=seg1.ts",
               "url=%2Fabs%2Fseg2.ts&mode=cdn", RelayQuery(OpaqueTarget, ""),
               RelayQuery(LookalikeTarget, "auth"), RelayQuery(LookalikeTarget, "cdn") }

SingleRanges == { Null, Some("bytes=0-99") }

SingleUpstreams ==
    { Upstream("none", 200, HlsType, MediaPlaylist, Null, Null, Null, 200, FALSE, CdnManifest),
      Upstream("none", 200, HlsType, MediaPlaylist, Null, Null, Some(RedirectedManifest), 200, FALSE, CdnManifest),
      Upstream("none", 200, "", MediaPlaylist, Null, Null, Some(RedirectedManifest), 200, FALSE, CdnPlain),
      Upstream("none", 200, TsType, SegmentBytes, Some("5"), Null, Null, 200, FALSE, CdnSegment),
      Upstream("none", 206, "", SegmentBytes, Some("5"), Some("bytes 0-4/5"), Null, 200, FALSE, CdnSegment),
      Upstream("none", 403, TsType, SegmentBytes, Some("5"), Null, Null, 200, FALSE, CdnSegment),
      Upstream("none", 403, HlsType, MediaPlaylist, Some("5"), Some("bytes 0-4/5"), Null, 206, FALSE, CdnSegment),
      Upstream("none", 403, TsType, SegmentBytes, Null, Null, Null, 404, FALSE, CdnSegment),
      Upstream("none", 403, TsType, SegmentBytes, Null, Null, Null, 200, TRUE, CdnSegment),
      Upstream("none", 404, "", SegmentBytes, Null, Null, Null, 200, FALSE, CdnManifest),
      Upstream("abort", 200, HlsType, MediaPlaylist, Null, Null, Null, 200, FALSE, CdnManifest),
      Upstream("network", 200, TsType, SegmentBytes, Null, Null, Null, 200, FALSE, CdnSegment) }

SingleRequests ==
    { NewRequest(q, range, up) : q \in SingleQueries, range \in SingleRanges, up \in SingleUpstreams }

(***************************************************************************)
(* The string computations of the handler, tabulated over the strings the  *)
(* inputs can produce (each entry is the operator's value on its key)      *)
(***************************************************************************)

ModelQueries ==
    SingleQueries \cup { RelayQuery(IndirectManifest, m) : m \in { "cdn", "auth" } }
        \cup { RelayQuery(IndirectSegment, "cdn") }

\* Every URL a request of the model can take as its target or be resolved to.
ModelUrls ==
    { IndirectManifest, IndirectSegment, CdnManifest, CdnSegment, CdnPlain, OpaqueTarget,
      LookalikeTarget }

ModelModes == { "standard", "auth", "cdn" }

ModelTexts == { MediaPlaylist, SegmentBytes }

ModelContentTypes == { HlsType, TsType, "" }

RequestTable == [ q \in ModelQueries |-> ParseRequest(q) ] @@ << >>

UrlTable ==
    [ u \in ModelUrls |->
        [isVavoo |-> isVavooUrl(u), fetchable |-> Fetchable(u), m3u8 |-> Includes(u, ".m3u8")] ] @@ << >>

ManifestTable ==
    [ k \in ModelContentTypes \X ModelUrls \X ModelUrls |-> IsManifest(k[1], k[2], k[3]) ] @@ << >>

RewriteTable ==
    [ k \in ModelTexts \X ModelUrls \X ModelModes |->
        RewriteManifest(k[1], k[2], ProxyOrigin, k[3]) ] @@ << >>

(***************************************************************************)
(* The GET handler as a state machine.  A request's pc is the await it is  *)
(* suspended at:                                                           *)
(*   start        not yet run                                              *)
(*   auth_wait    getVavooSignature awaits the ping POST                   *)
(*   sig_ready    GET awaits getVavooSignature, which has returned         *)
(*   resolve_wait resolveVavooUrl awaits the resolve POST                  *)
(*   cdn_ready    GET awaits resolveVavooUrl, which has returned           *)
(*   fetch_wait   GET awaits the content fetch                             *)
(*   retry_wait   GET awaits the retry fetch after a 403                   *)
(*   done         the response is returned                                 *)
(***************************************************************************)

\* One outbound request, as logged in a request's out.
\* late: the request carries a signature whose recorded expiry is not after now.
Outbound(to, url, ua, sig, range, late) ==
    [to |-> to, url |-> url, ua |-> ua, sig |-> sig, range |-> range, late |-> late]

\* The response of a finished request.
Response(status, kind, error, contentType, cl, cr, base, body) ==
    [status |-> status, kind |-> kind, error |-> error, contentType |-> contentType,
     contentLength |-> cl, contentRange |-> cr, cors |-> kind # "error",
     base |-> base, body |-> body]

\* NextResponse.json({ error }, { status })
JsonError(status, error) == Response(status, "error", error, "application/json", Null, Null, Null, Null)

Finish(req, resp) == [req EXCEPT !.pc = "done", !.resp = Some(resp)]

\* GET issues the content fetch (the range header, the timeout, fetch).
IssueFetch(req, finalUrl, sigHeader) ==
    LET ua == UserAgentFor(req.mode, req.isVavoo)
        late == sigHeader # Null /\ ~(now < req.sigExp)
    IN  [req EXCEPT !.pc = "fetch_wait", !.finalUrl = finalUrl, !.sigHeader = sigHeader,
                    !.timer = "armed",
                    !.out = IF UrlTable[finalUrl].fetchable
                            THEN Append(@, Outbound("content", finalUrl, ua, sigHeader, req.range, late))
                            ELSE @]

\* getVavooSignature up to its first await: cleanExpiredCache, then the cached
\* signature or the ping POST.
Purges(t) ==
    CleanSignature(cacheSignature, t) # cacheSignature \/ CleanCdnUrls(cacheCdnUrls, t) # cacheCdnUrls

CallGetSignature(req) ==
    LET sig == CleanSignature(cacheSignature, now)
    IN  IF SignatureHit(sig, now)
        THEN [req EXCEPT !.pc = "sig_ready", !.signature = Some(ValueOf(sig).sig),
                         !.sigExp = ValueOf(sig).exp, !.purged = Purges(now)]
        ELSE [req EXCEPT !.pc = "auth_wait", !.purged = Purges(now),
                         !.out = Append(@, Outbound("auth", AuthEndpoint, "okhttp/4.11.0", Null, Null, FALSE))]

\* The request with the locals GET sets before its mode branch, p being the
\* parsed request.
Classify(req, p) ==
    [req EXCEPT !.mode = p.mode, !.targetUrl = p.targetUrl, !.finalUrl = p.targetUrl,
                !.isVavoo = p.status = 0 /\ UrlTable[p.targetUrl].isVavoo]

\* GET from its entry to its first await, for request record req parsed as p.
Enter(req, p) ==
    IF p.status # 0
    THEN Finish([req EXCEPT !.mode = p.mode], JsonError(p.status, p.error))
    ELSE IF NeedsSignature(req.mode, req.isVavoo)
    THEN CallGetSignature(req)
    ELSE IssueFetch(req, req.targetUrl, Null)

\* A handler that runs cleanExpiredCache before it validates the url.
EntersCacheBeforeValidation(req, p) == req.mode \in { "cdn", "auth" }

\* Whether GET reaches getVavooSignature (and so cleanExpiredCache) at its entry.
EntersCache(req, p) == p.status = 0 /\ NeedsSignature(req.mode, req.isVavoo)

StartParsed(r, req, p) ==
    /\ rq' = [rq EXCEPT ![r] = Enter(req, p)]
    /\ cacheSignature' = IF EntersCache(req, p) THEN CleanSignature(cacheSignature, now)
                         ELSE cacheSignature
    /\ cacheCdnUrls' = IF EntersCache(req, p) THEN CleanCdnUrls(cacheCdnUrls, now)
                       ELSE cacheCdnUrls

Start(r) ==
    /\ rq[r].pc = "start"
    /\ StartParsed(r, Classify(rq[r], RequestTable[rq[r].query]), RequestTable[rq[r].query])
    /\ UNCHANGED << now, links, rw, rs >>

\* The ping POST settles: status not ok, a body with or without addonSig, or an
\* exception (the network, or a body that is not JSON).
AuthOutcomes == { "ok", "status", "nofield", "emptysig", "throw" }

\* The signature the authentication endpoint issues to request r when it issues one.
TokenFor(r) == "sig-" \o r

\* What getVavooSignature returns on an outcome.
SignatureOn(outcome, r) ==
    IF outcome = "ok" THEN Some(TokenFor(r)) ELSE Null

\* A handling of outcomes that drops the cached signature when issuance fails.
SignatureCacheOnDropping(outcome, r, sig, t) ==
    IF outcome = "ok" THEN SignatureEntry(TokenFor(r), t) ELSE Null

\* A handling that stores whatever addonSig a success body carries, empty or not.
SignatureCacheOnAnyField(outcome, r, sig, t) ==
    IF outcome = "ok" THEN SignatureEntry(TokenFor(r), t)
    ELSE IF outcome = "emptysig" THEN SignatureEntry("", t)
    ELSE sig

\* cache.signature after getVavooSignature has handled an outcome at time t.
SignatureCacheOn(outcome, r, sig, t) ==
    IF outcome = "ok" THEN SignatureEntry(TokenFor(r), t) ELSE sig

AuthRespond(r) ==
    /\ rq[r].pc = "auth_wait"
    /\ \E outcome \in AuthOutcomes :
          /\ rq' = [rq EXCEPT ![r].pc = "sig_ready",
                              ![r].signature = SignatureOn(outcome, r),
                              ![r].sigExp = IF outcome = "ok" THEN now + SigTTL ELSE 0]
          /\ cacheSignature' = SignatureCacheOn(outcome, r, cacheSignature, now)
    /\ UNCHANGED << now, cacheCdnUrls, links, rw, rs >>

\* resolveVavooUrl up to its first await: cleanExpiredCache, then the cached CDN
\* URL or the resolve POST carrying the signature.
CallResolve(req) ==
    LET m == CleanCdnUrls(cacheCdnUrls, now)
    IN  IF CdnHit(m, req.targetUrl, now)
        THEN [req EXCEPT !.pc = "cdn_ready", !.cdnUrl = Some(m[req.targetUrl].url),
                         !.purged = Purges(now)]
        ELSE [req EXCEPT !.pc = "resolve_wait", !.purged = Purges(now),
                         !.out = Append(@, Outbound("resolve", ResolveEndpoint, "MediaHubMX/2",
                                                    req.signature, Null, ~(now < req.sigExp)))]

\* GET resumes with getVavooSignature's result.
AfterSignature(r) ==
    /\ rq[r].pc = "sig_ready"
    /\ LET req == rq[r]
       IN  IF req.mode = "cdn"
           THEN IF req.signature = Null
                THEN /\ rq' = [rq EXCEPT ![r] = Finish(req, JsonError(502, "Auth failed"))]
                     /\ UNCHANGED << cacheSignature, cacheCdnUrls >>
                ELSE /\ rq' = [rq EXCEPT ![r] = CallResolve(req)]
                     /\ cacheSignature' = CleanSignature(cacheSignature, now)
                     /\ cacheCdnUrls' = CleanCdnUrls(cacheCdnUrls, now)
           ELSE /\ rq' = [rq EXCEPT ![r] = IssueFetch(req, req.targetUrl, req.signature)]
                /\ UNCHANGED << cacheSignature, cacheCdnUrls >>
    /\ UNCHANGED << now, links, rw, rs >>


\* The resolve POST settles: status not ok, an exception, or a JSON body.  The
\* url fields of these bodies are strings or absent; ResolveSpec reads bodies
\* whose url fields are of the other JSON types.
ResolveBodies(u) ==
    { [shape |-> "array", items |-> << Some(u) >>, url |-> Null],
      [shape |-> "array", items |-> << Null >>, url |-> Null],
      [shape |-> "array", items |-> << >>, url |-> Null],
      [shape |-> "object", items |-> << >>, url |-> Some(u)],
      [shape |-> "object", items |-> << >>, url |-> Some("")],
      [shape |-> "object", items |-> << >>, url |-> Null],
      [shape |-> "other", items |-> << >>, url |-> Null] }

ResolveOutcomes(u) ==
    { [kind |-> k, body |-> [shape |-> "other", items |-> << >>, url |-> Null]] : k \in { "status", "throw" } }
        \cup { [kind |-> "ok", body |-> b] : b \in ResolveBodies(u) }

\* What resolveVavooUrl returns on an outcome.
CdnUrlOn(outcome) ==
    IF outcome.kind = "ok" THEN UrlOfResolveBody(outcome.body) ELSE Null

\* cache.cdnUrls after resolveVavooUrl has handled an outcome at time t.
CdnCacheOn(outcome, vavooUrl, m, t) ==
    IF CdnUrlOn(outcome) # Null THEN CdnUrlsSet(m, vavooUrl, ValueOf(CdnUrlOn(outcome)), t) ELSE m

ResolveRespond(r) ==
    /\ rq[r].pc = "resolve_wait"
    /\ \E outcome \in ResolveOutcomes(rq[r].up.cdn) :
          /\ rq' = [rq EXCEPT ![r].pc = "cdn_ready", ![r].cdnUrl = CdnUrlOn(outcome)]
          /\ cacheCdnUrls' = CdnCacheOn(outcome, rq[r].targetUrl, cacheCdnUrls, now)
    /\ UNCHANGED << now, cacheSignature, links, rw, rs >>

\* GET resumes with resolveVavooUrl's result.
\* A resumption that falls back to the target URL when nothing was resolved.
OnResolvedFallback(req) ==
    IssueFetch(req, IF req.cdnUrl = Null THEN req.targetUrl ELSE ValueOf(req.cdnUrl), Null)

\* A resumption that fetches the target URL although a CDN URL was resolved.
OnResolvedOriginal(req) ==
    IF req.cdnUrl = Null
    THEN Finish(req, JsonError(502, "CDN resolve failed"))
    ELSE IssueFetch(req, req.targetUrl, Null)

\* A resumption that asks for the signature again when nothing was resolved.
OnResolvedAuthenticatesAgain(req) ==
    IF req.cdnUrl = Null
    THEN [req EXCEPT !.pc = "auth_wait",
                     !.out = Append(@, Outbound("auth", AuthEndpoint, "okhttp/4.11.0", Null, Null, FALSE))]
    ELSE IssueFetch(req, ValueOf(req.cdnUrl), Null)

\* GET's branch on resolveVavooUrl's result.
OnResolved(req) ==
    IF req.cdnUrl = Null
    THEN Finish(req, JsonError(502, "CDN resolve failed"))
    ELSE IssueFetch(req, ValueOf(req.cdnUrl), Null)

AfterResolve(r) ==
    /\ rq[r].pc = "cdn_ready"
    /\ rq' = [rq EXCEPT ![r] = OnResolved(rq[r])]
    /\ UNCHANGED << now, cacheSignature, cacheCdnUrls, links, rw, rs >>

StatusOk(status) == status >= 200 /\ status <= 299

\* response.url of the content fetch: the URL the response came from, which is
\* the last hop's when the fetch followed redirects.
ResponseUrl(req) ==
    IF req.up.redirect = Null THEN req.finalUrl ELSE ValueOf(req.up.redirect)

\* The base URL string GET hands to new URL for the rewriting.
RewriteBase(req) == req.finalUrl

\* GET's answer to a content response that is ok or 206.
RelayBody(req) ==
    LET up == req.up
    IN  IF ManifestTable[<< up.contentType, req.finalUrl, req.targetUrl >>]
        THEN Response(200, "manifest", "", "application/vnd.apple.mpegurl", Null, Null,
                      Some(RewriteBase(req)),
                      Some(RewriteTable[<< up.text, RewriteBase(req), req.mode >>]))
        ELSE Response(up.status, "segment", "",
                      IF up.contentType = "" THEN "video/MP2T" ELSE up.contentType,
                      up.contentLength, up.contentRange, Null, Some(up.text))

\* A message that quotes the headers of the fetch that was rejected.
CatchMessageQuotingHeaders(req) ==
    IF req.sigHeader = Null THEN "fetch failed"
    ELSE "fetch failed: mediahubmx-signature " \o ValueOf(req.sigHeader)

\* error.message of the error a rejected fetch lands in GET's catch with.
CatchMessage(req) == "fetch failed"

\* A retry that repeats the first fetch with its identity and headers.
RetryRequestSameIdentity(req) ==
    Outbound("retry", req.finalUrl, UserAgentFor(req.mode, req.isVavoo), req.sigHeader,
             req.range, FALSE)

\* The retry fetch GET issues after a 403 on a segment URL.
RetryRequest(req) == Outbound("retry", req.finalUrl, BrowserUA, Null, Null, FALSE)

\* A fallback taken on every refused segment fetch, whatever the status.
RetriesOnAnyRefusal(req) == ~UrlTable[req.finalUrl].m3u8

\* GET's test for the fallback, made once the status is neither 2xx nor 206.
Retries(req) == ~UrlTable[req.finalUrl].m3u8 /\ req.up.status = 403

\* An error response that carries the status of the retry.
ErrorStatusOfRetry(req) == req.up.retryStatus

\* The status of GET's error response after the content fetch was refused:
\* response.status, the first fetch's, whether or not a retry was made.
ErrorStatus(req) == req.up.status

\* A timer cleared only when the fetch is fulfilled.
TimerOnSettleFulfilledOnly(req) ==
    IF ~UrlTable[req.finalUrl].fetchable \/ req.up.fail = "network" THEN "armed"
    ELSE IF req.up.fail = "abort" THEN "fired"
    ELSE "cleared"

\* The timeout timer once the content fetch has settled and the finally callback
\* has run: "fired" when the timer's abort is what rejected the fetch (clearing
\* it then does nothing), "cleared" otherwise.
TimerOnSettle(req) ==
    IF UrlTable[req.finalUrl].fetchable /\ req.up.fail = "abort" THEN "fired" ELSE "cleared"

Settle(req) == [req EXCEPT !.timer = TimerOnSettle(req)]

\* The content fetch settles: it rejects (abort by the timeout, or another
\* error) or answers with a status.
FetchRespond(r) ==
    /\ rq[r].pc = "fetch_wait"
    /\ LET req == Settle(rq[r])
           up == req.up
       IN  rq' = [rq EXCEPT ![r] =
                    IF ~UrlTable[req.finalUrl].fetchable \/ up.fail = "network"
                    THEN Finish(req, JsonError(500, CatchMessage(req)))
                    ELSE IF up.fail = "abort"
                    THEN Finish(req, JsonError(504, "Request timeout"))
                    ELSE IF ~StatusOk(up.status) /\ up.status # 206
                    THEN IF Retries(req)
                         THEN [req EXCEPT !.pc = "retry_wait",
                                          !.out = Append(@, RetryRequest(req))]
                         ELSE Finish(req, JsonError(ErrorStatus(req), "Fetch error: " \o ToString(up.status)))
                    ELSE Finish(req, RelayBody(req))]
    /\ UNCHANGED << now, cacheSignature, cacheCdnUrls, links, rw, rs >>

\* The retry fetch settles.
RetryRespond(r) ==
    /\ rq[r].pc = "retry_wait"
    /\ LET req == rq[r]
           up == req.up
       IN  rq' = [rq EXCEPT ![r] =
                    IF up.retryFail
                    THEN Finish(req, JsonError(500, CatchMessage(req)))
                    ELSE IF StatusOk(up.retryStatus) \/ up.retryStatus = 206
                    THEN Finish(req, Response(up.retryStatus, "segment", "",
                                              IF up.contentType = "" THEN "video/MP2T" ELSE up.contentType,
                                              Null, Null, Null, Some(up.text)))
                    ELSE Finish(req, JsonError(ErrorStatus(req), "Fetch error: " \o ToString(up.status)))]
    /\ UNCHANGED << now, cacheSignature, cacheCdnUrls, links, rw, rs >>

\* Time passes between two steps.
Tick ==
    /\ now < MaxTicks * TickStep
    /\ now' = now + TickStep
    /\ UNCHANGED << cacheSignature, cacheCdnUrls, rq, links, rw, rs >>

Next ==
    \/ \E r \in DOMAIN rq : Start(r)
    \/ \E r \in DOMAIN rq : AuthRespond(r)
    \/ \E r \in DOMAIN rq : AfterSignature(r)
    \/ \E r \in DOMAIN rq : ResolveRespond(r)
    \/ \E r \in DOMAIN rq : AfterResolve(r)
    \/ \E r \in DOMAIN rq : FetchRespond(r)
    \/ \E r \in DOMAIN rq : RetryRespond(r)
    \/ Tick


Requests == { "A", "B" }

Init ==
    /\ now = 0
    /\ cacheSignature = Null
    /\ cacheCdnUrls = << >>
    /\ rq \in [ Requests -> ConcurrentRequests ]
    /\ links = << >>
    /\ rw = << >>
    /\ rs = << >>

\* Two concurrent requests sharing the caches.
Spec == Init /\ [][Next]_vars

\* One request, over every input and content-server behaviour.
RelayInit ==
    /\ now = 0
    /\ cacheSignature = Null
    /\ cacheCdnUrls = << >>
    /\ rq \in [ { "A" } -> SingleRequests ]
    /\ links = << >>
    /\ rw = << >>
    /\ rs = << >>

RelaySpec == RelayInit /\ [][Next]_vars

(***************************************************************************)
(* The second GET of route.ts.  Its getVavooSignature, resolveVavooUrl and *)
(* rewriting are those of the first; its mode branch, its User-Agent, its  *)
(* handling of an upstream status, its playlist test and its catch differ. *)
(***************************************************************************)

\* targetUrl.includes('vavoo.to'), over the URLs of the model.
IncludesVavooTable == [ u \in ModelUrls |-> Includes(u, "vavoo.to") ] @@ << >>

\* Whether the mode branch of the second GET calls getVavooSignature.
NeedsSignature2(mode, includesVavoo) == (mode = "cdn" /\ includesVavoo) \/ mode = "auth"

\* The test that sends a fetched body to the rewriter in the second GET.
IsManifest2(contentType, targetUrl) ==
    \/ Includes(contentType, "mpegurl")
    \/ Includes(contentType, "m3u8")
    \/ Includes(targetUrl, ".m3u8")

ManifestTable2 ==
    [ k \in ModelContentTypes \X ModelUrls |-> IsManifest2(k[1], k[2]) ] @@ << >>

\* The second GET issues the content fetch, always as VAVOO/2.6.
IssueFetch2(req, finalUrl, sigHeader) ==
    [req EXCEPT !.pc = "fetch_wait", !.finalUrl = finalUrl, !.sigHeader = sigHeader,
                !.out = IF UrlTable[finalUrl].fetchable
                        THEN Append(@, Outbound("content", finalUrl, VavooUA, sigHeader, req.range,
                                                sigHeader # Null /\ ~(now < req.sigExp)))
                        ELSE @]

\* The request with the locals the second GET sets before its mode branch;
\* isVavoo holds targetUrl.includes('vavoo.to').
Classify2(req, p) ==
    [req EXCEPT !.mode = p.mode, !.targetUrl = p.targetUrl, !.finalUrl = p.targetUrl,
                !.isVavoo = p.status = 0 /\ IncludesVavooTable[p.targetUrl]]

\* The second GET from its entry to its first await.
Enter2(req, p) ==
    IF p.status # 0
    THEN Finish([req EXCEPT !.mode = p.mode], JsonError(p.status, p.error))
    ELSE IF NeedsSignature2(req.mode, req.isVavoo)
    THEN CallGetSignature(req)
    ELSE IssueFetch2(req, req.targetUrl, Null)

EntersCache2(req, p) == p.status = 0 /\ NeedsSignature2(req.mode, req.isVavoo)

StartParsed2(r, req, p) ==
    /\ rq' = [rq EXCEPT ![r] = Enter2(req, p)]
    /\ cacheSignature' = IF EntersCache2(req, p) THEN CleanSignature(cacheSignature, now)
                         ELSE cacheSignature
    /\ cacheCdnUrls' = IF EntersCache2(req, p) THEN CleanCdnUrls(cacheCdnUrls, now)
                       ELSE cacheCdnUrls

Start2(r) ==
    /\ rq[r].pc = "start"
    /\ StartParsed2(r, Classify2(rq[r], RequestTable[rq[r].query]), RequestTable[rq[r].query])
    /\ UNCHANGED << now, links, rw, rs >>

\* The second GET resumes with getVavooSignature's result, in its cdn branch
\* or in its auth branch.
AfterSignature2(r) ==
    /\ rq[r].pc = "sig_ready"
    /\ LET req == rq[r]
       IN  IF req.mode = "cdn" /\ req.isVavoo
           THEN IF req.signature = Null
                THEN /\ rq' = [rq EXCEPT ![r] = Finish(req, JsonError(502, "Auth failed"))]
                     /\ UNCHANGED << cacheSignature, cacheCdnUrls >>
                ELSE /\ rq' = [rq EXCEPT ![r] = CallResolve(req)]
                     /\ cacheSignature' = CleanSignature(cacheSignature, now)
                     /\ cacheCdnUrls' = CleanCdnUrls(cacheCdnUrls, now)
           ELSE /\ rq' = [rq EXCEPT ![r] = IssueFetch2(req, req.targetUrl, req.signature)]
                /\ UNCHANGED << cacheSignature, cacheCdnUrls >>
    /\ UNCHANGED << now, links, rw, rs >>

\* The second GET's branch on resolveVavooUrl's result.
OnResolved2(req) ==
    IF req.cdnUrl = Null
    THEN Finish(req, JsonError(502, "CDN resolve failed"))
    ELSE IssueFetch2(req, ValueOf(req.cdnUrl), Null)

AfterResolve2(r) ==
    /\ rq[r].pc = "cdn_ready"
    /\ rq' = [rq EXCEPT ![r] = OnResolved2(rq[r])]
    /\ UNCHANGED << now, cacheSignature, cacheCdnUrls, links, rw, rs >>

\* The second GET's answer to a content response that is ok or 206.
RelayBody2(req) ==
    LET up == req.up
    IN  IF ManifestTable2[<< up.contentType, req.targetUrl >>]
        THEN Response(200, "manifest", "", "application/vnd.apple.mpegurl", Null, Null,
                      Some(req.finalUrl),
                      Some(RewriteTable[<< up.text, req.finalUrl, req.mode >>]))
        ELSE Response(up.status, "segment", "",
                      IF up.contentType = "" THEN "video/MP2T" ELSE up.contentType,
                      up.contentLength, up.contentRange, Null, Some(up.text))

\* The message of the error fetch rejects with when its signal aborts it.
AbortMessage == "This operation was aborted"

\* The content fetch of the second GET settles: a rejection of any kind goes
\* to the one catch, a status outside 2xx and 206 is answered as it is.
FetchRespond2(r) ==
    /\ rq[r].pc = "fetch_wait"
    /\ LET req == rq[r]
           up == req.up
       IN  rq' = [rq EXCEPT ![r] =
                    IF ~UrlTable[req.finalUrl].fetchable \/ up.fail = "network"
                    THEN Finish(req, JsonError(500, "fetch failed"))
                    ELSE IF up.fail = "abort"
                    THEN Finish(req, JsonError(500, AbortMessage))
                    ELSE IF ~StatusOk(up.status) /\ up.status # 206
                    THEN Finish(req, JsonError(up.status, "Fetch error: " \o ToString(up.status)))
                    ELSE Finish(req, RelayBody2(req))]
    /\ UNCHANGED << now, cacheSignature, cacheCdnUrls, links, rw, rs >>

Next2 ==
    \/ \E r \in DOMAIN rq : Start2(r)
    \/ \E r \in DOMAIN rq : AuthRespond(r)
    \/ \E r \in DOMAIN rq : AfterSignature2(r)
    \/ \E r \in DOMAIN rq : ResolveRespond(r)
    \/ \E r \in DOMAIN rq : AfterResolve2(r)
    \/ \E r \in DOMAIN rq : FetchRespond2(r)
    \/ Tick

\* One request to the second GET, over every input and content-server behaviour.
RelaySpec2 == RelayInit /\ [][Next2]_vars

(***************************************************************************)
(* A client walking a playlist tree through the relay: it requests a URL,  *)
(* GET parses the request and answers with a rewritten manifest, and the   *)
(* client requests one of the rewritten lines, MaxDepth times.             *)
(***************************************************************************)

\* The number of rewritten links a walk follows.
MaxDepth == 2

MasterPlaylist == "#EXTM3U\n#EXT-X-STREAM-INF:BANDWIDTH=800000\nsub/index.m3u8\n\n/abs/seg2.ts"
EscapedPlaylist == "#EXTM3U\nhttps://cdn2.example/y/a%20b.ts\n seg%zz.ts \nq.ts?t=1&u=2+3"

\* The manifests the content servers of a walk answer with.
LinkTexts == { MediaPlaylist, MasterPlaylist, EscapedPlaylist }

LinkTargets == { IndirectManifest, CdnManifest }

\* The mode parameter of a walk's first request ("": none).
LinkModes == { "", "standard", "auth", "cdn" }

\* A walk before its first request is handled.  chainMode is the mode GET served
\* the previous manifest in; expected is the absolute URL the rewriter resolved
\* for the line the client followed (Null for the first request).
NewWalk(url) ==
    [pc |-> "request", url |-> url, depth |-> 0, chainMode |-> "", expected |-> Null,
     status |-> 0, mode |-> "", targetUrl |-> "", base |-> "",
     source |-> << >>, body |-> << >>]

\* The walk after GET has parsed its request as p.
Parsed(walk, p) ==
    [walk EXCEPT !.pc = "parsed", !.status = p.status, !.mode = p.mode,
                 !.targetUrl = p.targetUrl]

\* GET reads and validates the parameters of the client's request.
LinkRequest ==
    /\ links.pc = "request"
    /\ links' = Parsed(links, ParseRequest(QueryOf(links.url)))
    /\ UNCHANGED << now, cacheSignature, cacheCdnUrls, rq, rw, rs >>

\* finalUrl of a walk's request: the resolved URL in cdn mode on an indirection
\* URL, the target otherwise.
LinkFinalUrl(walk) ==
    IF walk.mode = "cdn" /\ isVavooUrl(walk.targetUrl) THEN CdnManifest ELSE walk.targetUrl

\* The walk after GET has answered with the rewriting of text against base.
Served(walk, text, base) ==
    [walk EXCEPT !.pc = "manifest", !.base = base, !.source = Split(text, "\n"),
                 !.body = Split(RewriteManifest(text, base, ProxyOrigin, walk.mode), "\n")]

\* The content server answers 200 with a playlist and GET rewrites it.
LinkServe ==
    /\ links.pc = "parsed"
    /\ links.status = 0
    /\ links.depth < MaxDepth
    /\ \E text \in LinkTexts : links' = Served(links, text, LinkFinalUrl(links))
    /\ UNCHANGED << now, cacheSignature, cacheCdnUrls, rq, rw, rs >>

\* The walk after the client has picked line i of the rewritten manifest.
Followed(walk, i) ==
    [walk EXCEPT !.pc = "request", !.url = walk.body[i], !.depth = @ + 1,
                 !.chainMode = walk.mode,
                 !.expected = Some(AbsoluteUrl(Trim(walk.source[i]), ParseUrl(walk.base)))]

\* The client requests a reference line of the manifest it received.
LinkFollow ==
    /\ links.pc = "manifest"
    /\ \E i \in 1..Len(links.source) :
          /\ ~IsPassThrough(links.source[i])
          /\ links' = Followed(links, i)
    /\ UNCHANGED << now, cacheSignature, cacheCdnUrls, rq, rw, rs >>

LinkNext == LinkRequest \/ LinkServe \/ LinkFollow

LinkInit ==
    /\ now = 0
    /\ cacheSignature = Null
    /\ cacheCdnUrls = << >>
    /\ rq = << >>
    /\ links \in { NewWalk(ProxyOrigin \o RelayPath \o "?" \o RelayQuery(t, m)) :
                     t \in LinkTargets, m \in LinkModes }
    /\ rw = << >>
    /\ rs = << >>

\* One client following rewritten links.
LinkSpec == LinkInit /\ [][LinkNext]_vars


(***************************************************************************)
(* The manifest rewriter on its own: a manifest text, a base URL and a     *)
(* mode are drawn, GET's M3U8 branch rewrites the text, and a second       *)
(* request rewrites the rewritten text again.                              *)
(***************************************************************************)

\* The lines manifests are made of: tags, blank lines, and relative,
\* root-relative, absolute and malformed references, with surrounding white
\* space, percent escapes, a query string, dot segments and an upper-case scheme.
RewriteLines ==
    { "#EXTM3U", "", "  #EXTINF:10, a b \r", " \t", "seg1.ts", "/abs/seg2.ts",
      " sub/index.m3u8\r", "https://cdn2.example/y/a%20b.ts", "http://",
      "../up/q.ts?t=1&u=2+3", "//other.example/z.ts", "HTTPS://UP.example/x.ts" }

\* The number of lines of a manifest.
ManifestLen == 2

\* The lines that follow the first line of a manifest: a blank line, a tag and
\* the two common kinds of reference.
RewriteTails == { "", "  #EXTINF:10, a b \r", "seg1.ts", "/abs/seg2.ts" }

\* The manifests: any line first, then tail lines, ManifestLen lines in all.
RewriteTexts ==
    { Join(<< h >> \o ls, "\n") : h \in RewriteLines, ls \in [ 1..(ManifestLen - 1) -> RewriteTails ] }

\* Base URLs: a file in a directory, a bare origin, a file with a query string.
RewriteBases ==
    { "https://cdn.example/path/live/index.m3u8", "https://cdn.example",
      "https://cdn2.example/x/index.m3u8?token=a/b" }

NewRewrite(text, base, mode) ==
    [pc |-> "text", text |-> text, base |-> base, mode |-> mode, mode2 |-> "",
     once |-> "", twice |-> ""]

\* GET rewrites the manifest it fetched from base while serving a request in mode.
Rewrite ==
    /\ rw.pc = "text"
    /\ rw' = [rw EXCEPT !.pc = "once",
                        !.once = RewriteManifest(rw.text, rw.base, ProxyOrigin, rw.mode)]
    /\ UNCHANGED << now, cacheSignature, cacheCdnUrls, rq, links, rs >>

\* GET is handed the rewritten manifest as a manifest fetched from the proxy
\* and rewrites it again, in any mode.
RewriteAgain ==
    /\ rw.pc = "once"
    /\ \E m \in ModelModes :
          rw' = [rw EXCEPT !.pc = "twice", !.mode2 = m,
                           !.twice = RewriteManifest(rw.once, ProxyOrigin \o RelayPath, ProxyOrigin, m)]
    /\ UNCHANGED << now, cacheSignature, cacheCdnUrls, rq, links, rs >>

RewriteNext == Rewrite \/ RewriteAgain

RewriteInit ==
    /\ now = 0
    /\ cacheSignature = Null
    /\ cacheCdnUrls = << >>
    /\ rq = << >>
    /\ links = << >>
    /\ rw \in { NewRewrite(t, b, m) : t \in RewriteTexts, b \in RewriteBases, m \in ModelModes }
    /\ rs = << >>

\* One manifest rewritten once and twice.
RewriteSpec == RewriteInit /\ [][RewriteNext]_vars

(***************************************************************************)
(* resolveVavooUrl's reading of the resolve endpoint's answer, in this     *)
(* route and in vavoo/direct                                               *)
(***************************************************************************)

\* The longest array the resolve endpoint answers with.
MaxItems == 2

\* A JSON value as a property read yields it: undefined when the property is
\* absent, null, a string, a number, a boolean (n is 1 for true) or an object.
JsonValue(t, s, n) == [t |-> t, s |-> s, n |-> n]
Undefined == JsonValue("undefined", "", 0)
JsonNull == JsonValue("null", "", 0)
JsonString(s) == JsonValue("string", s, 0)
JsonNumber(n) == JsonValue("number", "", n)
JsonBoolean(b) == JsonValue("boolean", "", IF b THEN 1 ELSE 0)
JsonObject == JsonValue("object", "", 0)

\* The truthiness JavaScript's if and && test.
Truthy(v) ==
    CASE v.t = "string" -> v.s # ""
      [] v.t \in { "number", "boolean" } -> v.n # 0
      [] v.t = "object" -> TRUE
      [] OTHER -> FALSE

UrlValues ==
    { Undefined, JsonNull, JsonString(""), JsonString(CdnManifest), JsonNumber(0),
      JsonNumber(42), JsonBoolean(TRUE), JsonObject }

\* An element of an array: an object with its url property, null, or a string.
ResolveItems ==
    { [kind |-> "object", url |-> v] : v \in UrlValues }
        \cup { [kind |-> k, url |-> Undefined] : k \in { "null", "string" } }

\* The bodies response.json() yields: an array, an object with its url
\* property, or null, a number or a string.
ResolvePayloads ==
    { [shape |-> "array", items |-> is, url |-> Undefined] :
          is \in UNION { [ 1..n -> ResolveItems ] : n \in 0..MaxItems } }
        \cup { [shape |-> "object", items |-> << >>, url |-> v] : v \in UrlValues }
        \cup { [shape |-> sh, items |-> << >>, url |-> Undefined] : sh \in { "null", "number", "string" } }

\* What the resolve POST settles with: fetch rejects ("network"), the body is
\* not JSON ("syntax"), or a status with a JSON body.
ResolveAnswers ==
    { [fail |-> "", status |-> st, payload |-> p] : st \in { 200, 403 }, p \in ResolvePayloads }
        \cup { [fail |-> f, status |-> 200, payload |-> [shape |-> "null", items |-> << >>, url |-> Undefined]] :
                  f \in { "network", "syntax" } }

\* result[0].url throws a TypeError when result[0] is null.
ReadThrows(result) ==
    result.shape = "array" /\ Len(result.items) > 0 /\ result.items[1].kind = "null"

\* result[0].url of a non-empty array, undefined otherwise.
FirstUrl(result) ==
    IF result.shape = "array" /\ Len(result.items) > 0 THEN result.items[1].url ELSE Undefined

\* The value the two tests of either function pick from result, JsonNull when
\* neither test passes.
PickedUrl(result) ==
    IF Truthy(FirstUrl(result)) THEN FirstUrl(result)
    ELSE IF result.shape = "object" /\ Truthy(result.url) THEN result.url
    ELSE JsonNull

\* Whether the function is past its tests of the response: fetch resolved, the
\* status is ok, the body is JSON and reading result[0].url did not throw.
ReadsResult(answer) ==
    answer.fail = "" /\ StatusOk(answer.status) /\ ~ReadThrows(answer.payload)

\* resolveVavooUrl of this route from the answer on: what it returns (Null for
\* null) and what it stores in cache.cdnUrls.  cdnUrl.substring throws after the
\* store when cdnUrl is not a string, and the catch returns null.
ResolveVavooUrl(answer) ==
    IF ReadsResult(answer) /\ Truthy(PickedUrl(answer.payload))
    THEN [returned |-> IF PickedUrl(answer.payload).t = "string"
                       THEN Some(PickedUrl(answer.payload)) ELSE Null,
          stored |-> Some(PickedUrl(answer.payload))]
    ELSE [returned |-> Null, stored |-> Null]

\* resolveVavooUrl of vavoo/direct from the answer on: what it returns.
DirectResolveVavooUrl(answer) ==
    IF ReadsResult(answer) /\ Truthy(PickedUrl(answer.payload))
    THEN Some(PickedUrl(answer.payload))
    ELSE Null

NewResolve(answer) ==
    [answer |-> answer, called |-> FALSE, returned |-> Null, stored |-> Null,
     directCalled |-> FALSE, directReturned |-> Null]

ResolveCall ==
    /\ ~rs.called
    /\ rs' = [rs EXCEPT !.called = TRUE,
                        !.returned = ResolveVavooUrl(rs.answer).returned,
                        !.stored = ResolveVavooUrl(rs.answer).stored]
    /\ UNCHANGED << now, cacheSignature, cacheCdnUrls, rq, links, rw >>

DirectResolveCall ==
    /\ ~rs.directCalled
    /\ rs' = [rs EXCEPT !.directCalled = TRUE,
                        !.directReturned = DirectResolveVavooUrl(rs.answer)]
    /\ UNCHANGED << now, cacheSignature, cacheCdnUrls, rq, links, rw >>

ResolveNext == ResolveCall \/ DirectResolveCall

ResolveInit ==
    /\ now = 0
    /\ cacheSignature = Null
    /\ cacheCdnUrls = << >>
    /\ rq = << >>
    /\ links = << >>
    /\ rw = << >>
    /\ rs \in { NewResolve(a) : a \in ResolveAnswers }

\* One answer of the resolve endpoint read by both functions.
ResolveSpec == ResolveInit /\ [][ResolveNext]_vars

(***************************************************************************)
(* Properties                                                              *)
(***************************************************************************)

\* The positions in a request's out of its content fetches (first fetch and retry).
ContentFetches(req) ==
    { i \in DOMAIN req.out : req.out[i].to \in { "content", "retry" } }

\* A request's call of resolveVavooUrl has returned no URL.
ResolveFailed(req) ==
    /\ req.mode = "cdn"
    /\ req.isVavoo
    /\ req.signature # Null
    /\ req.cdnUrl = Null
    /\ req.pc \in { "cdn_ready", "done" }

\* C1: in cdn mode on an indirection URL, a request whose resolveVavooUrl call
\* returned no URL has issued no content fetch, and its response is the 502 JSON
\* error "CDN resolve failed".
C1_ResolveFailureIs502 ==
    \A r \in DOMAIN rq :
        ResolveFailed(rq[r]) =>
            /\ ContentFetches(rq[r]) = {}
            /\ rq[r].pc = "done" =>
                  /\ ValueOf(rq[r].resp).status = 502
                  /\ ValueOf(rq[r].resp).kind = "error"
                  /\ ValueOf(rq[r].resp).error = "CDN resolve failed"

\* A finished cdn request whose resolve POST settled without a URL and that was
\* answered 502.
C1_Witness ==
    \E r \in DOMAIN rq :
        /\ ResolveFailed(rq[r])
        /\ rq[r].pc = "done"
        /\ \E i \in DOMAIN rq[r].out : rq[r].out[i].to = "resolve"
        /\ ValueOf(rq[r].resp).status = 502

\* C2: in cdn mode on an indirection URL, every content fetch of the request
\* (the first fetch and the retry after a 403) is addressed to the URL
\* resolveVavooUrl returned, which is the URL the resolve endpoint resolves the
\* target to, and none is addressed to the target URL.
C2_FetchesOnlyResolvedUrl ==
    \A r \in DOMAIN rq :
        (rq[r].mode = "cdn" /\ rq[r].isVavoo) =>
            \A i \in ContentFetches(rq[r]) :
                /\ rq[r].cdnUrl = Some(rq[r].up.cdn)
                /\ rq[r].out[i].url = rq[r].up.cdn
                /\ rq[r].out[i].url # rq[r].targetUrl

\* A finished cdn request on an indirection URL that fetched the resolved URL
\* twice (the first fetch was answered 403).
C2_Witness ==
    \E r \in DOMAIN rq :
        /\ rq[r].mode = "cdn"
        /\ rq[r].isVavoo
        /\ rq[r].pc = "done"
        /\ \E i, j \in ContentFetches(rq[r]) :
              rq[r].out[i].to = "content" /\ rq[r].out[j].to = "retry"

\* C3: every outbound request that carries a signature is sent at a time
\* strictly before the expiry recorded for that signature.
C3_NeverUsedPastExpiry ==
    \A r \in DOMAIN rq :
        \A i \in DOMAIN rq[r].out :
            rq[r].out[i].sig # Null => ~rq[r].out[i].late

\* Some request holds a signature whose recorded expiry is after now.
TokenInForce ==
    \E q \in DOMAIN rq : rq[q].signature # Null /\ now < rq[q].sigExp

\* C4: once a signature is stored, a getVavooSignature call that starts before
\* the signature's expiry returns a signature at once and sends no request to
\* the authentication endpoint.
C4_CachedTokenNoAuthCall ==
    [][ \A r \in DOMAIN rq :
            (TokenInForce /\ rq[r].pc = "start" /\ rq'[r].pc \in { "auth_wait", "sig_ready" }) =>
                /\ rq'[r].pc = "sig_ready"
                /\ rq'[r].signature # Null
                /\ now < rq'[r].sigExp
                /\ rq'[r].out = rq[r].out ]_vars

\* A request that got its signature without any outbound request while the
\* other request is the one that obtained it from the authentication endpoint.
C4_Witness ==
    \E r, q \in DOMAIN rq :
        /\ rq[r].pc = "sig_ready"
        /\ rq[r].signature # Null
        /\ rq[r].out = << >>
        /\ rq[q].signature = rq[r].signature
        /\ \E i \in DOMAIN rq[q].out : rq[q].out[i].to = "auth"

\* A step in which request r's ping POST settles with a signature.
Issues(r) ==
    rq[r].pc = "auth_wait" /\ rq'[r].pc = "sig_ready" /\ rq'[r].signature # Null

\* C5: a getVavooSignature call the authentication endpoint answers with a
\* signature returns that non-empty signature and leaves in the cache exactly
\* the entry of this call (its signature, its completion time plus the
\* lifetime); every other step leaves the cached entry as it is or removes it.
C5_CacheHoldsLastCompleter ==
    [][ /\ \A r \in DOMAIN rq :
             Issues(r) =>
                /\ ValueOf(rq'[r].signature) # ""
                /\ cacheSignature' = Some([sig |-> ValueOf(rq'[r].signature), exp |-> now + SigTTL])
        /\ (\A r \in DOMAIN rq : ~Issues(r)) => cacheSignature' \in { cacheSignature, Null } ]_vars

\* Request r obtained its signature from the authentication endpoint.
IssuedTo(r) ==
    /\ rq[r].signature = Some(TokenFor(r))
    /\ \E i \in DOMAIN rq[r].out : rq[r].out[i].to = "auth"

\* Two calls that overlapped both obtained a signature, at different times, and
\* the cache holds the signature and the expiry of the later one.
C5_Witness ==
    \E r, q \in DOMAIN rq :
        /\ IssuedTo(r)
        /\ IssuedTo(q)
        /\ rq[r].sigExp < rq[q].sigExp
        /\ rq[q].sigExp < rq[r].sigExp + SigTTL
        /\ cacheSignature = Some([sig |-> TokenFor(q), exp |-> rq[q].sigExp])

\* A step in which a cached call of request r ends in failure.
FailsCall(r) ==
    \/ rq[r].pc = "auth_wait" /\ rq'[r].pc = "sig_ready" /\ rq'[r].signature = Null
    \/ rq[r].pc = "resolve_wait" /\ rq'[r].pc = "cdn_ready" /\ rq'[r].cdnUrl = Null

\* A step in which request r enters getVavooSignature or resolveVavooUrl.
EntersCall(r) ==
    \/ rq[r].pc = "start" /\ rq'[r].pc \in { "auth_wait", "sig_ready" }
    \/ rq[r].pc = "sig_ready" /\ rq'[r].pc \in { "resolve_wait", "cdn_ready" }

\* The step changes the caches by removing entries whose expiry is before now,
\* and in no other way.
RemovesOnlyExpired ==
    /\ \/ cacheSignature' = cacheSignature
       \/ cacheSignature' = Null /\ ValueOf(cacheSignature).exp < now
    /\ DOMAIN cacheCdnUrls' \subseteq DOMAIN cacheCdnUrls
    /\ \A k \in DOMAIN cacheCdnUrls :
          IF k \in DOMAIN cacheCdnUrls'
          THEN cacheCdnUrls'[k] = cacheCdnUrls[k]
          ELSE cacheCdnUrls[k].exp < now

C7_IssuanceFailureIs502 ==
    \A r \in DOMAIN rq :
        (/\ rq[r].pc = "done"
         /\ NeedsSignature(rq[r].mode, rq[r].isVavoo)
         /\ rq[r].signature = Null) => ValueOf(rq[r].resp).status = 502

\* C8: the base URL of every rewritten manifest is the URL of the response the
\* manifest came in (the last hop's when the fetch followed redirects).
C8_BaseIsResponseUrl ==
    \A r \in DOMAIN rq :
        (rq[r].pc = "done" /\ ValueOf(rq[r].resp).kind = "manifest") =>
            ValueOf(rq[r].resp).base = Some(ResponseUrl(rq[r]))

\* C9: the request for a rewritten line passes validation and its targetUrl is
\* the absolute URL the rewriter resolved for the line.
C9_RoundTrip ==
    (links.pc = "parsed" /\ links.expected # Null) =>
        (links.status = 0 /\ links.targetUrl = ValueOf(links.expected))

\* C10: the request for a rewritten line is handled in the mode the manifest
\* was served in.
C10_ModeContinuity ==
    (links.pc = "parsed" /\ links.expected # Null) => links.mode = links.chainMode

\* A request two links below an auth-mode request, handled in auth mode.
C10_Witness ==
    /\ links.pc = "parsed"
    /\ links.depth = MaxDepth
    /\ links.chainMode = "auth"
    /\ links.mode = "auth"

\* The lines of a manifest text.
LinesOf(text) == Split(text, "\n")

\* A line that, trimmed, is empty or starts with "#".
IsTagOrBlank(line) == Trim(line) = "" \/ CharAt(Trim(line), 1) = "#"

\* String.prototype.endsWith
EndsWith(s, p) == Len(s) >= Len(p) /\ SubSeq(s, Len(s) - Len(p) + 1, Len(s)) = p

\* The decoded url query parameter of a relay URL (Null when it has none).
Target(line) == SearchParamsGet(QueryOf(line), "url")

\* C11: the rewritten manifest has as many lines as the manifest; at every
\* position a line that, trimmed, is empty or starts with "#" is the same string
\* in the output, and a reference line is replaced by a relay URL for that line.
C11_TagsAndBlanksKept ==
    rw.pc # "text" =>
        /\ Len(LinesOf(rw.once)) = Len(LinesOf(rw.text))
        /\ \A i \in 1..Len(LinesOf(rw.text)) :
              IF IsTagOrBlank(LinesOf(rw.text)[i])
              THEN LinesOf(rw.once)[i] = LinesOf(rw.text)[i]
              ELSE /\ Target(LinesOf(rw.once)[i]) # Null
                   /\ EndsWith(ValueOf(Target(LinesOf(rw.once)[i])), Trim(LinesOf(rw.text)[i]))

\* A rewritten manifest made of a tag with surrounding white space and a reference.
C11_Witness ==
    /\ rw.pc = "once"
    /\ rw.text = "  #EXTINF:10, a b \r\nseg1.ts"
    /\ LinesOf(rw.once)[1] = "  #EXTINF:10, a b \r"
    /\ LinesOf(rw.once)[2] # "seg1.ts"

\* The 1-based index of the last "/" of a path; 0 when it has none.
LastSlash(path) ==
    IF \E i \in 1..Len(path) : CharAt(path, i) = "/"
    THEN CHOOSE i \in 1..Len(path) :
            CharAt(path, i) = "/" /\ \A j \in (i + 1)..Len(path) : CharAt(path, j) # "/"
    ELSE 0

\* dirname: a path without its last segment and without the slash before it.
DirName(path) == SubSeq(path, 1, LastSlash(path) - 1)

\* The absolute URL of a trimmed reference against a base URL, by the three rules.
ResolvedReference(trimmed, base) ==
    IF StartsWith(trimmed, "http://") \/ StartsWith(trimmed, "https://")
    THEN trimmed
    ELSE IF StartsWith(trimmed, "/")
    THEN ParseUrl(base).origin \o trimmed
    ELSE ParseUrl(base).origin \o DirName(ParseUrl(base).pathname) \o "/" \o trimmed

\* C12: the url parameter of every rewritten reference line is the trimmed line
\* itself when it starts with http:// or https://, origin(base) + line when it
\* starts with "/", and origin(base) + dirname(path(base)) + "/" + line otherwise.
C12_ResolutionRules ==
    rw.pc # "text" =>
        \A i \in 1..Len(LinesOf(rw.text)) :
            ~IsTagOrBlank(LinesOf(rw.text)[i]) =>
                Target(LinesOf(rw.once)[i])
                    = Some(ResolvedReference(Trim(LinesOf(rw.text)[i]), rw.base))

\* The two examples: seg1.ts and /abs/seg2.ts against
\* https://cdn.example/path/live/index.m3u8.
C12_Witness ==
    /\ rw.pc = "once"
    /\ rw.base = "https://cdn.example/path/live/index.m3u8"
    /\ rw.text = "seg1.ts\n/abs/seg2.ts"
    /\ Target(LinesOf(rw.once)[1]) = Some("https://cdn.example/path/live/seg1.ts")
    /\ Target(LinesOf(rw.once)[2]) = Some("https://cdn.example/abs/seg2.ts")

\* A syntactically valid absolute URL: new URL accepts it and it has a host.
IsAbsoluteUrl(url) == ParseUrl(url).ok /\ ParseUrl(url).hostname # ""

\* C13: every rewritten reference line is a URL on the proxy's origin and relay
\* path whose url parameter, percent-decoded, is a valid absolute URL with a
\* scheme and a host.
C13_RewrittenIsValidRelayUrl ==
    rw.pc # "text" =>
        \A i \in 1..Len(LinesOf(rw.text)) :
            ~IsTagOrBlank(LinesOf(rw.text)[i]) =>
                /\ StartsWith(LinesOf(rw.once)[i], ProxyOrigin \o RelayPath \o "?url=")
                /\ Target(LinesOf(rw.once)[i]) # Null
                /\ IsAbsoluteUrl(ValueOf(Target(LinesOf(rw.once)[i])))

\* Percent-decoding of a query-parameter value, evaluated by halves so that long
\* strings can be decoded: a well-formed escape is its character and every
\* other character stays as it is.  The cut never falls inside an escape.
RECURSIVE PercentDecode(_)
PercentDecode(s) ==
    IF Len(s) = 0 THEN ""
    ELSE IF Len(s) <= 3 \/ CharAt(s, 1) = "%"
    THEN IF IsEscapeAt(s) /\ EscapeCode(s) \in AsciiCodes
         THEN Chr(EscapeCode(s)) \o PercentDecode(SubSeq(s, 4, Len(s)))
         ELSE CharAt(s, 1) \o PercentDecode(SubSeq(s, 2, Len(s)))
    ELSE PercentDecode(SubSeq(s, 1, DecodeCut(s)))
            \o PercentDecode(SubSeq(s, DecodeCut(s) + 1, Len(s)))

\* The percent-decoded url parameter of a relay URL: one layer of wrapping
\* removed (Null when the URL has no url parameter).
Unwrapped(line) ==
    LET pairs == Split(QueryOf(line), "&")
        hits == { i \in 1..Len(pairs) : StartsWith(pairs[i], "url=") }
    IN  IF hits = {} THEN Null
        ELSE Some(PercentDecode(SubSeq(pairs[CHOOSE i \in hits : \A j \in hits : i <= j],
                                       5, Len(pairs[CHOOSE i \in hits : \A j \in hits : i <= j]))))

\* C14: the url parameter of a twice-rewritten reference line decodes to the
\* once-rewritten line (one more wrapping layer), so decoding both layers gives
\* the target the once-rewritten line decodes to; tags and blank lines are the
\* same after the second rewriting.
C14_SecondRewritingKeepsTarget ==
    rw.pc = "twice" =>
        /\ Len(LinesOf(rw.twice)) = Len(LinesOf(rw.text))
        /\ \A i \in 1..Len(LinesOf(rw.text)) :
              IF IsTagOrBlank(LinesOf(rw.text)[i])
              THEN LinesOf(rw.twice)[i] = LinesOf(rw.text)[i]
              ELSE /\ Unwrapped(LinesOf(rw.twice)[i]) = Some(LinesOf(rw.once)[i])
                   /\ Unwrapped(LinesOf(rw.once)[i]) # Null
                   /\ Unwrapped(ValueOf(Unwrapped(LinesOf(rw.twice)[i])))
                         = Unwrapped(LinesOf(rw.once)[i])

\* A manifest whose reference has a query string, rewritten in auth mode and
\* again in cdn mode.
C14_Witness ==
    /\ rw.pc = "twice"
    /\ rw.text = "../up/q.ts?t=1&u=2+3\n  #EXTINF:10, a b \r"
    /\ rw.mode = "auth"
    /\ rw.mode2 = "cdn"
    /\ Unwrapped(ValueOf(Unwrapped(LinesOf(rw.twice)[1])))
          = Some("https://cdn.example/path/live/../up/q.ts?t=1&u=2+3")

\* A finished request was answered with a fetched body (not with a JSON error).
ReturnsBody(req) ==
    req.pc = "done" /\ ValueOf(req.resp).kind \in { "manifest", "segment" }

\* The playlist condition on the body a request returns: the content type holds
\* the HLS MIME marker, or the requested or the final URL holds ".m3u8".
PlaylistCondition(req) ==
    \/ Includes(req.up.contentType, "mpegurl")
    \/ Includes(req.finalUrl, ".m3u8")
    \/ Includes(req.targetUrl, ".m3u8")

\* C15: a returned body is a rewritten manifest exactly when the playlist
\* condition holds for it, and otherwise it is the upstream body unmodified.
C15_EveryBodyClassified ==
    \A r \in DOMAIN rq :
        ReturnsBody(rq[r]) =>
            /\ (ValueOf(rq[r].resp).kind = "manifest") = PlaylistCondition(rq[r])
            /\ ValueOf(rq[r].resp).kind = "segment" => ValueOf(rq[r].resp).body = Some(rq[r].up.text)

\* C16: every segment response carries the Content-Length and Content-Range the
\* content server sent, and the CORS header.
C16_SegmentHeadersForwarded ==
    \A r \in DOMAIN rq :
        (rq[r].pc = "done" /\ ValueOf(rq[r].resp).kind = "segment") =>
            /\ ValueOf(rq[r].resp).contentLength = rq[r].up.contentLength
            /\ ValueOf(rq[r].resp).contentRange = rq[r].up.contentRange
            /\ ValueOf(rq[r].resp).cors

\* The first content fetch of a request was answered 403 on a URL without ".m3u8".
SegmentRefused(req) ==
    /\ req.pc \in { "retry_wait", "done" }
    /\ \E i \in DOMAIN req.out : req.out[i].to = "content"
    /\ req.up.fail = "none"
    /\ req.up.status = 403
    /\ ~Includes(req.finalUrl, ".m3u8")

\* The retry of a request settled with a 2xx or 206 status.
RetrySucceeds(req) ==
    ~req.up.retryFail /\ (StatusOk(req.up.retryStatus) \/ req.up.retryStatus = 206)

\* C17: after a 403 on a segment URL the request has issued one first fetch and
\* exactly one retry, the retry to the same URL with the browser User-Agent; when
\* the request is finished it returned the retry's body with the retry's status
\* if the retry succeeded and an error response otherwise.
C17_OneRetryOnSegment403 ==
    \A r \in DOMAIN rq :
        SegmentRefused(rq[r]) =>
            /\ Cardinality({ i \in DOMAIN rq[r].out : rq[r].out[i].to = "content" }) = 1
            /\ Cardinality({ i \in DOMAIN rq[r].out : rq[r].out[i].to = "retry" }) = 1
            /\ \A i \in DOMAIN rq[r].out :
                  rq[r].out[i].to = "retry" =>
                      rq[r].out[i].url = rq[r].finalUrl /\ rq[r].out[i].ua = BrowserUA
            /\ rq[r].pc = "done" =>
                  IF RetrySucceeds(rq[r])
                  THEN /\ ValueOf(rq[r].resp).kind = "segment"
                       /\ ValueOf(rq[r].resp).status = rq[r].up.retryStatus
                       /\ ValueOf(rq[r].resp).body = Some(rq[r].up.text)
                  ELSE ValueOf(rq[r].resp).kind = "error"

\* A finished request in cdn mode on an indirection URL whose first fetch, sent
\* with the VAVOO User-Agent, was answered 403 and whose retry succeeded.
C17_Witness ==
    \E r \in DOMAIN rq :
        /\ SegmentRefused(rq[r])
        /\ rq[r].pc = "done"
        /\ rq[r].out[Len(rq[r].out)].to = "retry"
        /\ rq[r].out[Len(rq[r].out) - 1].ua = VavooUA
        /\ ValueOf(rq[r].resp).kind = "segment"

\* C18: every content fetch of a request, the first one and the retry, carries
\* the Range header of the request verbatim, and carries none when the request
\* has none.
C18_RangeOnEveryFetch ==
    \A r \in DOMAIN rq :
        \A i \in DOMAIN rq[r].out :
            rq[r].out[i].to \in { "content", "retry" } => rq[r].out[i].range = rq[r].range

\* The first content fetch of a finished request was answered with a status
\* outside 2xx and 206, and no retry of it succeeded.
UpstreamRefused(req) ==
    /\ req.pc = "done"
    /\ \E i \in DOMAIN req.out : req.out[i].to = "content"
    /\ req.up.fail = "none"
    /\ ~(StatusOk(req.up.status) \/ req.up.status = 206)
    /\ ~(SegmentRefused(req) /\ RetrySucceeds(req))

\* C20: a finished request whose first content fetch was answered outside 2xx
\* and 206, and whose retry did not succeed, answers with an error response
\* whose status is the status of the first fetch.
C20_UpstreamStatusSurfaced ==
    \A r \in DOMAIN rq :
        UpstreamRefused(rq[r]) =>
            /\ ValueOf(rq[r].resp).kind = "error"
            /\ ValueOf(rq[r].resp).status = rq[r].up.status

\* The content fetch of a finished request was sent and aborted by its timeout.
TimedOut(req) ==
    /\ req.pc = "done"
    /\ \E i \in DOMAIN req.out : req.out[i].to = "content"
    /\ req.up.fail = "abort"

\* C19: a request whose content fetch was aborted by its timeout is answered
\* 504, in the first GET and in the second.
C19_TimeoutIs504 ==
    \A r \in DOMAIN rq : TimedOut(rq[r]) => ValueOf(rq[r].resp).status = 504

\* The url parameter of a query is missing, empty, cannot be percent-decoded or
\* does not decode to a URL new URL accepts.
BadUrlParam(query) ==
    LET url == SearchParamsGet(query, "url")
    IN  \/ url = Null
        \/ ValueOf(url) = ""
        \/ ~DecodeURIComponent(ValueOf(url)).ok
        \/ ~ParseUrl(DecodeURIComponent(ValueOf(url)).val).ok

\* C21: a finished request whose url parameter is missing, invalid or cannot be
\* decoded was answered 400 and sent nothing upstream.
C21_BadUrlIs400 ==
    \A r \in DOMAIN rq :
        (rq[r].pc = "done" /\ BadUrlParam(rq[r].query)) =>
            ValueOf(rq[r].resp).status = 400 /\ rq[r].out = << >>

(***************************************************************************)
(* Progress.  The runtime resumes the handler at every await that settles, *)
(* and the content fetch settles in every case because its AbortController *)
(* fires after the timeout.  The ping POST, the resolve POST and the retry  *)
(* fetch carry no signal: they settle only if the endpoint answers or the  *)
(* connection fails, which nothing in the route brings about.              *)
(***************************************************************************)
Progress ==
    /\ WF_vars(\E r \in DOMAIN rq : Start(r))
    /\ WF_vars(\E r \in DOMAIN rq : AfterSignature(r))
    /\ WF_vars(\E r \in DOMAIN rq : AfterResolve(r))
    /\ WF_vars(\E r \in DOMAIN rq : FetchRespond(r))

\* One request under the progress the route guarantees.
FairRelaySpec == RelaySpec /\ Progress

\* C22: every request is eventually answered, whatever the endpoints do.
C22_EveryRequestAnswered == <>(\A r \in DOMAIN rq : rq[r].pc = "done")

\* Progress when every endpoint also answers every request it receives.
AllAnswer ==
    /\ Progress
    /\ WF_vars(\E r \in DOMAIN rq : AuthRespond(r))
    /\ WF_vars(\E r \in DOMAIN rq : ResolveRespond(r))
    /\ WF_vars(\E r \in DOMAIN rq : RetryRespond(r))

AnsweringSpec == RelaySpec /\ AllAnswer

\* The status upstream returned for the body a finished request relays: the
\* retry's when the request retried, the first fetch's otherwise.
RelayedStatus(req) ==
    IF \E i \in DOMAIN req.out : req.out[i].to = "retry"
    THEN req.up.retryStatus
    ELSE req.up.status

\* C23: a finished request has one response; an error response is a JSON error
\* with status 400, 502, 504, 500 or the status upstream answered the content
\* fetch with, and a response with a body has the status upstream returned for
\* that body.
C23_OneResponseKnownStatus ==
    \A r \in DOMAIN rq :
        rq[r].pc = "done" =>
            /\ rq[r].resp # Null
            /\ ValueOf(rq[r].resp).kind = "error" =>
                  /\ ValueOf(rq[r].resp).contentType = "application/json"
                  /\ ValueOf(rq[r].resp).body = Null
                  /\ \/ ValueOf(rq[r].resp).status \in { 400, 502, 504, 500 }
                     \/ /\ \E i \in DOMAIN rq[r].out : rq[r].out[i].to = "content"
                        /\ ValueOf(rq[r].resp).status = rq[r].up.status
            /\ ValueOf(rq[r].resp).kind # "error" =>
                  ValueOf(rq[r].resp).status = RelayedStatus(rq[r])

\* A host name belongs to the indirection domain: it is the domain or one of
\* its subdomains.
InIndirectionDomain(hostname) == hostname = "vavoo.to" \/ EndsWith(hostname, ".vavoo.to")

\* C24: a request carrying a signature header goes to a host of the indirection
\* domain only, and in auth mode the content fetch of a request that holds a
\* signature carries it when the target's host is in that domain.
C24_TokenOnlyToIndirectionHosts ==
    \A r \in DOMAIN rq :
        \A i \in DOMAIN rq[r].out :
            /\ rq[r].out[i].sig # Null =>
                  InIndirectionDomain(ParseUrl(rq[r].out[i].url).hostname)
            /\ ( /\ rq[r].mode = "auth"
                 /\ rq[r].out[i].to = "content"
                 /\ rq[r].signature # Null
                 /\ InIndirectionDomain(ParseUrl(rq[r].targetUrl).hostname) ) =>
                  rq[r].out[i].sig = rq[r].signature

\* The request's content fetch carried a signature header.
SentToken(req) ==
    \E i \in DOMAIN req.out : req.out[i].to = "content" /\ req.out[i].sig # Null

LooksUp(r) == rq[r].pc = "sig_ready" /\ rq'[r].pc \in { "resolve_wait", "cdn_ready" }

\* A step in which resolveVavooUrl returns a URL the resolve endpoint sent.
Resolves(r) == rq[r].pc = "resolve_wait" /\ rq'[r].pc = "cdn_ready" /\ rq'[r].cdnUrl # Null

\* C26 (amended): the purge before the lookup removes the entries whose expiry
\* is before now; a URL is returned from the cache only if its entry's expiry
\* is after now; a successful resolve stores the URL under its source URL with
\* expiry now + 30 minutes, leaves the other entries alone, and returns it.
C26_CachedUrlNotExpired ==
    [][ \A r \in DOMAIN rq :
            /\ LooksUp(r) =>
                  /\ \A k \in DOMAIN cacheCdnUrls' : ~(cacheCdnUrls'[k].exp < now)
                  /\ rq'[r].pc = "cdn_ready" =>
                        /\ rq[r].targetUrl \in DOMAIN cacheCdnUrls
                        /\ cacheCdnUrls[rq[r].targetUrl].exp > now
                        /\ rq'[r].cdnUrl = Some(cacheCdnUrls[rq[r].targetUrl].url)
            /\ Resolves(r) =>
                  /\ rq[r].targetUrl \in DOMAIN cacheCdnUrls'
                  /\ cacheCdnUrls'[rq[r].targetUrl]
                        = [url |-> ValueOf(rq'[r].cdnUrl), exp |-> now + CdnTTL]
                  /\ \A k \in DOMAIN cacheCdnUrls' \ { rq[r].targetUrl } :
                        k \in DOMAIN cacheCdnUrls /\ cacheCdnUrls'[k] = cacheCdnUrls[k]
      ]_vars

\* A request was handed its CDN URL by the cache, after time has passed since
\* the entry was stored.
C26_Witness ==
    \E r \in DOMAIN rq :
        /\ rq[r].pc = "cdn_ready"
        /\ rq[r].cdnUrl # Null
        /\ \A i \in DOMAIN rq[r].out : rq[r].out[i].to # "resolve"
        /\ now > 0

\* C26 as stated: after the purge that precedes a lookup the cache holds no
\* entry whose expiry is at or before now.
C26_NoStaleEntryAtLookup ==
    [][ \A r \in DOMAIN rq :
            LooksUp(r) => \A k \in DOMAIN cacheCdnUrls' : cacheCdnUrls'[k].exp > now
      ]_vars

\* The number of outbound requests of one kind a request has issued.
Sent(req, to) == Cardinality({ i \in DOMAIN req.out : req.out[i].to = to })

\* C27: a request issues at most one ping POST, one resolve POST, one content
\* fetch and one retry, and a retry only after a first content fetch that was
\* answered 403 on a URL without ".m3u8".
C27_NoRetryButThe403Fallback ==
    \A r \in DOMAIN rq :
        /\ Sent(rq[r], "auth") <= 1
        /\ Sent(rq[r], "resolve") <= 1
        /\ Sent(rq[r], "content") <= 1
        /\ Sent(rq[r], "retry") <= 1
        /\ Sent(rq[r], "retry") = 1 =>
              /\ Sent(rq[r], "content") = 1
              /\ rq[r].out[Len(rq[r].out)].to = "retry"
              /\ rq[r].up.fail = "none"
              /\ rq[r].up.status = 403
              /\ ~Includes(rq[r].finalUrl, ".m3u8")

\* A finished request in cdn mode that made all four calls: ping, resolve, the
\* content fetch and the retry.
C27_Witness ==
    \E r \in DOMAIN rq :
        /\ rq[r].pc = "done"
        /\ Len(rq[r].out) = 4
        /\ Sent(rq[r], "retry") = 1

\* C28: a step of a request in standard mode leaves the credential cache and
\* the resolved-URL cache as they are, and the request has sent nothing to the
\* authentication endpoint or to the resolve endpoint.
C28_StandardModeTouchesNoCache ==
    [][ \A r \in DOMAIN rq :
            (rq'[r].mode = "standard" /\ rq'[r] # rq[r]) =>
                /\ cacheSignature' = cacheSignature
                /\ cacheCdnUrls' = cacheCdnUrls
                /\ Sent(rq'[r], "auth") = 0
                /\ Sent(rq'[r], "resolve") = 0
      ]_vars

\* A request in standard mode on an indirection URL is finished while the
\* caches hold a signature whose expiry has passed and a resolved URL: entries
\* a call to cleanExpiredCache would have touched.
C28_Witness ==
    \E r \in DOMAIN rq :
        /\ rq[r].mode = "standard"
        /\ rq[r].pc = "done"
        /\ rq[r].isVavoo
        /\ cacheSignature # Null
        /\ ValueOf(cacheSignature).exp < now
        /\ cacheCdnUrls # << >>

\* C29: in cdn mode every content fetch carries the browser User-Agent and no
\* signature header.
C29_CdnModeBrowserIdentity ==
    \A r \in DOMAIN rq :
        rq[r].mode = "cdn" =>
            \A i \in DOMAIN rq[r].out :
                rq[r].out[i].to = "content" =>
                    rq[r].out[i].ua = BrowserUA /\ rq[r].out[i].sig = Null

\* C30: in standard and auth mode the first content fetch carries the VAVOO
\* User-Agent when the target's host is in the indirection domain and the
\* browser User-Agent for every other host.
C30_IdentityByClassification ==
    \A r \in DOMAIN rq :
        rq[r].mode \in { "standard", "auth" } =>
            \A i \in DOMAIN rq[r].out :
                rq[r].out[i].to = "content" =>
                    rq[r].out[i].ua =
                        IF InIndirectionDomain(ParseUrl(rq[r].targetUrl).hostname)
                        THEN VavooUA ELSE BrowserUA

\* C31: a request in cdn mode whose target's host is not in the indirection
\* domain has sent nothing to the authentication endpoint or the resolve
\* endpoint, and the caches, empty when it arrived, are still empty.
C31_CdnModeForeignHostFetchedDirectly ==
    \A r \in DOMAIN rq :
        ( /\ rq[r].mode = "cdn"
          /\ rq[r].targetUrl # ""
          /\ ~InIndirectionDomain(ParseUrl(rq[r].targetUrl).hostname) ) =>
            /\ Sent(rq[r], "auth") = 0
            /\ Sent(rq[r], "resolve") = 0
            /\ cacheSignature = Null
            /\ cacheCdnUrls = << >>

\* The position of a request in GET: received, signature awaited, signature
\* returned, resolution awaited, resolution returned, content awaited, retry
\* awaited, responded.
StepRank(pc) ==
    CASE pc = "start" -> 0
      [] pc = "auth_wait" -> 1
      [] pc = "sig_ready" -> 2
      [] pc = "resolve_wait" -> 3
      [] pc = "cdn_ready" -> 4
      [] pc = "fetch_wait" -> 5
      [] pc = "retry_wait" -> 6
      [] pc = "done" -> 7

CallRank(to) ==
    CASE to = "auth" -> 1
      [] to = "resolve" -> 2
      [] to = "content" -> 3
      [] to = "retry" -> 4

\* The upstream calls of a request are in the order credential, resolve, content,
\* retry, each made at most once, and none is made before classification.
CallsInOrder(req) ==
    /\ \A i, j \in DOMAIN req.out : i < j => CallRank(req.out[i].to) < CallRank(req.out[j].to)
    /\ req.pc = "start" => req.out = << >>

\* C32: every step of a request moves it strictly forward through received,
\* classified, authenticated, resolved, fetched, responded, and its upstream
\* calls stay in the order credential call, resolve call, content fetch.
C32_StepsInFixedOrder ==
    [][ \A r \in DOMAIN rq :
          /\ rq'[r] # rq[r] => StepRank(rq'[r].pc) > StepRank(rq[r].pc)
          /\ CallsInOrder(rq'[r]) ]_vars

C32_Witness ==
    \E r \in DOMAIN rq :
        /\ rq[r].pc = "done"
        /\ rq[r].mode = "cdn"
        /\ Len(rq[r].out) = 3
        /\ rq[r].out[1].to = "auth" /\ rq[r].out[2].to = "resolve" /\ rq[r].out[3].to = "content"
        /\ rq[r].resp # Null /\ ValueOf(rq[r].resp).kind = "manifest"

\* A url field that is a non-empty string.
NonEmptyUrl(v) == v.t = "string" /\ v.s # ""

\* The URL the two accepted shapes of an answer carry, Null for every other answer.
AcceptedUrl(answer) ==
    IF answer.fail # "" \/ ~StatusOk(answer.status) THEN Null
    ELSE IF /\ answer.payload.shape = "array"
            /\ Len(answer.payload.items) > 0
            /\ answer.payload.items[1].kind = "object"
            /\ NonEmptyUrl(answer.payload.items[1].url)
    THEN Some(answer.payload.items[1].url)
    ELSE IF answer.payload.shape = "object" /\ NonEmptyUrl(answer.payload.url)
    THEN Some(answer.payload.url)
    ELSE Null

\* C33: each of the two resolveVavooUrl functions returns the url of the first
\* element of a non-empty array or the top-level url of an object when that url
\* is non-empty and the status is a success, and returns no URL on every other
\* answer.
C33_TwoShapesElseNoUrl ==
    /\ rs.called => rs.returned = AcceptedUrl(rs.answer)
    /\ rs.directCalled => rs.directReturned = AcceptedUrl(rs.answer)

\* Request r's resolveVavooUrl call stored an entry for r's source URL.
Stored(r) == rq[r].cdnUrl # Null /\ Sent(rq[r], "resolve") = 1

\* C34 (as stated): the entry a request stored for its source URL is still in
\* the cache as long as no other request is for that source URL.
C34_EntryStaysUntilOwnLookup ==
    \A r, q \in DOMAIN rq :
        (r # q /\ Stored(r) /\ rq[q].query # rq[r].query) =>
            rq[r].targetUrl \in DOMAIN cacheCdnUrls

\* C34 (amended): every getVavooSignature or resolveVavooUrl call, whatever
\* request makes it, leaves no entry whose expiry is before now; entries are
\* removed in no other step, and an entry that is removed had expired.
C34_SweptAtEveryCachedCall ==
    [][ /\ (\E r \in DOMAIN rq : EntersCall(r)) =>
              \A k \in DOMAIN cacheCdnUrls' : ~(cacheCdnUrls'[k].exp < now)
        /\ (\A r \in DOMAIN rq : ~EntersCall(r)) =>
              DOMAIN cacheCdnUrls \subseteq DOMAIN cacheCdnUrls'
        /\ \A k \in DOMAIN cacheCdnUrls \ DOMAIN cacheCdnUrls' : cacheCdnUrls[k].exp < now ]_vars

\* The entry one request stored is gone after a call of the other request, which
\* is for another source URL, swept it.
C34_Witness ==
    \E r, q \in DOMAIN rq :
        /\ r # q
        /\ Stored(r)
        /\ rq[q].targetUrl # "" /\ rq[q].targetUrl # rq[r].targetUrl
        /\ rq[q].purged
        /\ rq[r].targetUrl \notin DOMAIN cacheCdnUrls

C36_TimerClearedWhenFetchSettles ==
    \A r \in DOMAIN rq :
        /\ rq[r].timer = "armed" <=> rq[r].pc = "fetch_wait"
        /\ rq[r].timer = "fired" =>
              rq[r].pc = "done" /\ ValueOf(rq[r].resp).kind = "error"
        /\ (rq[r].pc = "done" /\ ValueOf(rq[r].resp).kind \in { "manifest", "segment" }) =>
              rq[r].timer = "cleared"

\* A content fetch was rejected by the network and the request is answered
\* with the timer cleared.
C36_Witness ==
    \E r \in DOMAIN rq :
        /\ rq[r].pc = "done"
        /\ rq[r].timer = "cleared"
        /\ rq[r].up.fail = "network"
        /\ Sent(rq[r], "content") = 1

\* C37: the step that answers a request 400 sends nothing upstream and leaves
\* both caches exactly as they were, expired entries included.
C37_BadRequestHasNoEffect ==
    [][ \A r \in DOMAIN rq :
            (rq'[r] # rq[r] /\ rq'[r].resp # Null /\ ValueOf(rq'[r].resp).status = 400) =>
                /\ rq[r].pc = "start"
                /\ rq'[r].out = << >>
                /\ cacheSignature' = cacheSignature
                /\ cacheCdnUrls' = cacheCdnUrls ]_vars

\* A request was answered 400 while the cache holds an expired entry, which a
\* sweep would have removed.
C37_Witness ==
    \E r \in DOMAIN rq :
        /\ rq[r].pc = "done"
        /\ ValueOf(rq[r].resp).status = 400
        /\ rq[r].out = << >>
        /\ \E k \in DOMAIN cacheCdnUrls : cacheCdnUrls[k].exp < now

\* C38: a finished request whose first fetch was answered 403 on a segment URL
\* and whose retry was answered with a status outside 2xx and 206 answers with
\* an error response of status 403, the first fetch's status.
C38_FailedRetryReports403 ==
    \A r \in DOMAIN rq :
        (/\ rq[r].pc = "done"
         /\ Sent(rq[r], "retry") = 1
         /\ ~rq[r].up.retryFail
         /\ ~(StatusOk(rq[r].up.retryStatus) \/ rq[r].up.retryStatus = 206)) =>
            /\ ValueOf(rq[r].resp).kind = "error"
            /\ ValueOf(rq[r].resp).status = 403
            /\ ValueOf(rq[r].resp).error = "Fetch error: 403"

\* A finished request whose retry was answered 404.
C38_Witness ==
    \E r \in DOMAIN rq :
        /\ rq[r].pc = "done"
        /\ Sent(rq[r], "retry") = 1
        /\ ~rq[r].up.retryFail
        /\ rq[r].up.retryStatus = 404
        /\ ValueOf(rq[r].resp).status = 403

\* C39: a step in which cleanExpiredCache runs removes every resolved-URL entry
\* whose expiry is before now, keeps every entry whose expiry is now or later
\* with its value, adds none, and clears the cached signature exactly when its
\* expiry is before now.
C39_CleanRemovesExactlyExpired ==
    [][ (\E r \in DOMAIN rq : EntersCall(r)) =>
            /\ DOMAIN cacheCdnUrls' = { k \in DOMAIN cacheCdnUrls : cacheCdnUrls[k].exp >= now }
            /\ \A k \in DOMAIN cacheCdnUrls' : cacheCdnUrls'[k] = cacheCdnUrls[k]
            /\ cacheSignature' = IF cacheSignature # Null /\ ValueOf(cacheSignature).exp < now
                                 THEN Null ELSE cacheSignature ]_vars

\* A request whose call swept an expired entry is under way, and the cache
\* holds a signature whose expiry is the current time.
C39_Witness ==
    \E r \in DOMAIN rq :
        /\ rq[r].purged
        /\ rq[r].pc \in { "sig_ready", "resolve_wait" }
        /\ cacheSignature # Null
        /\ ValueOf(cacheSignature).exp = now

\* C40: the cached signature is absent or has a non-empty token and an expiry
\* that is one hour after a time not later than now; and a step that puts a
\* signature in the cache is the step in which a ping POST settles with a
\* signature, which writes that signature with expiry now plus one hour.
C40_CredentialCacheWellFormed ==
    /\ [](cacheSignature # Null =>
             /\ ValueOf(cacheSignature).sig # ""
             /\ ValueOf(cacheSignature).exp - SigTTL \in 0..now)
    /\ [][ (cacheSignature' # cacheSignature /\ cacheSignature' # Null) =>
              \E r \in DOMAIN rq :
                  /\ Issues(r)
                  /\ Sent(rq[r], "auth") = 1
                  /\ cacheSignature' = Some([sig |-> TokenFor(r), exp |-> now + SigTTL]) ]_vars

\* The cache holds a signature written at the current time, after time has passed.
C40_Witness ==
    /\ cacheSignature # Null
    /\ now > 0
    /\ ValueOf(cacheSignature).exp = now + SigTTL
    /\ ValueOf(cacheSignature).sig # ""

====
